---- MODULE Spec2Model ----
(***************************************************************************)
(* nilrt-snac: the audit-log session (logging_context), the output tee     *)
(* (_TeeStream) and the log directory / log file they create, modelled as  *)
(* one single-threaded state machine.  The program state is the process's  *)
(* sys.stdout / sys.stderr, the root logger's handlers, the console, the   *)
(* log directory and its files, the clock, and the local variables and     *)
(* position of every logging_context generator that has been started.      *)
(* Faults of the environment (permission errors, a log file that cannot be *)
(* written or flushed, a console that cannot be written) are inputs.       *)
(***************************************************************************)
EXTENDS Integers, Sequences, FiniteSets, TLC

VARIABLES
    now,          \* the clock, in ticks (TicksPerSecond ticks to a second)
    umask,        \* the process umask: the permission bits it masks out
    groupExists,  \* whether grp.getgrnam(LOG_GROUP) finds the group
    dir,          \* LOG_DIR on disk: [kind, mode, group]
    files,        \* the files of LOG_DIR: path -> [mode, group, content, creator]
    fobj,         \* per session, its log_file object: [state, buf, fault]
    sys_stdout,   \* the object sys.stdout names
    sys_stderr,   \* the object sys.stderr names
    handlers,     \* logging.root.handlers: sequence of [kind, stream]
    console,      \* what the terminal received, in order: [it, w]
    conFault,     \* TRUE while a write to the terminal raises
    sess,         \* per session started, the locals of its logging_context frame
    stack,        \* the active logging_context frames, innermost last
    tee_in,       \* per session, the data handed to write() of its two tees
    warned,       \* the logger.warning calls made, in order
    exit_kind,    \* the error kind the driver reported for the last outermost session
    nwrites,      \* writes, log records and flushes the bodies issued so far
    nticks,       \* clock steps so far
    nfaults,      \* fault changes so far
    run,          \* the locals of the last run_with_logging call, and its subprocess
    nruns,        \* run_with_logging calls so far
    host,         \* what the Config Modules read and change: packages, services, files
    call,         \* the last configure or verify call and what came of it
    ncalls,       \* configure and verify calls so far
    ndrifts       \* changes made to the host behind the tool's back so far

vars == <<now, umask, groupExists, dir, files, fobj, sys_stdout, sys_stderr,
          handlers, console, conFault, sess, stack, tee_in, warned, exit_kind,
          nwrites, nticks, nfaults, run, nruns, host, call, ncalls, ndrifts>>
\* What logging_context does not touch.
runvars == <<run, nruns>>
\* What neither logging_context nor run_with_logging touches.
cfgvars == <<host, call, ncalls, ndrifts>>

(***************************************************************************)
(* Bounds of the model.                                                    *)
(***************************************************************************)
MaxSessions == 2
MaxWrites == 2
MaxTicks == 1
MaxFaults == 1
TicksPerSecond == 2
StartSecond == 59
MaxEvents == 4
MaxHandlers == 2
\* run_with_logging calls in one run, and lines one subprocess prints
MaxRuns == 2
MaxLines == 2
\* configure and verify calls in one run, and changes to the host between them
MaxCalls == 2
MaxDrifts == 2

(***************************************************************************)
(* Program constants.  A permission mode is the set of its bits.           *)
(***************************************************************************)
AllBits == {"ur", "uw", "ux", "gr", "gw", "gx", "or", "ow", "ox"}
LOG_PERMISSIONS == {"ur", "uw", "gr"}
DIR_PERMISSIONS == {"ur", "uw", "ux", "gr", "gx"}
LOG_GROUP == "adm"
ProcessGroup == "root"
Umasks == { {"gw", "ow"}, {"gr", "gw", "gx", "or", "ow", "ox"} }
Commands == {"configure", "verify"}

\* Errors (IntEnum): the kinds of error the driver reports.
Errors == [EX_OK |-> 0, EX_ERROR |-> 1, EX_USAGE |-> 2,
           EX_BAD_ENVIRONMENT |-> 128, EX_CHECK_FAILURE |-> 129]

(***************************************************************************)
(* Stream objects, by identity.                                            *)
(***************************************************************************)
Con(w) == [k |-> "con", s |-> 0, w |-> w]
Tee(s, w) == [k |-> "tee", s |-> s, w |-> w]
NoStream == [k |-> "none", s |-> 0, w |-> "none"]

(***************************************************************************)
(* What is written: [k, n, s, h].  k is the kind; n numbers a write of the *)
(* body; s is the session a header, footer, warning or location message    *)
(* belongs to; h is the handler a log record went through.                 *)
(***************************************************************************)
Item(k, n, s, h) == [k |-> k, n |-> n, s |-> s, h |-> h]
Header(s) == Item("hdr", 0, s, 0)
Footer(s) == Item("ftr", 0, s, 0)
TeeWarning(s) == Item("warn", 0, s, 0)
Saved(s) == Item("saved", 0, s, 0)

NoPath == <<>>
NoFile == [state |-> "none", buf |-> <<>>, fault |-> "ok"]
NoFiles == [p \in {} |-> 0]

\* A timestamp of the date alone, strftime("%Y%m%d"): the properties of the
\* filename must tell it from the real one.
Stamp_dateonly(t) == <<(t \div TicksPerSecond) \div 86400>>

\* _generate_log_filename: strftime("%Y%m%d-%H%M%S") of the clock, to whole
\* seconds, as the fields it prints: the day (for year, month and day), the
\* hour, the minute and the second.
Stamp(t) ==
    LET sec == t \div TicksPerSecond
    IN  <<sec \div 86400, (sec \div 3600) % 24, (sec \div 60) % 60, sec % 60>>

_generate_log_filename(command, t) == <<command, Stamp(t)>>

cur == stack[Len(stack)]
At(p) == stack # <<>> /\ sess[cur].pc = p
\* Inputs taken so far: sessions started, writes issued, subprocesses run,
\* clock steps and fault changes.  One run takes at most MaxEvents of them.
Events == Len(sess) + nwrites + nruns + nticks + nfaults + Len(handlers) - 1
MayTake == Events < MaxEvents

\* The outcomes the environment may give a system call: it succeeds, or, while
\* the run may still take a fault, it fails in one of the ways in errs.
Outcomes(errs) == IF MayTake /\ nfaults < MaxFaults THEN {"ok"} \cup errs ELSE {"ok"}
Charged(r) == IF r = "ok" THEN nfaults ELSE nfaults + 1

\* No session is running its own code: the process is outside every session
\* or in the body of the innermost one.
\* run_with_logging is between its Popen and its return or raise.
Running == run.pc \in {"read", "echo", "wait"}

Idle == ~Running /\ (IF stack = <<>> THEN TRUE ELSE sess[cur].pc = "yield")
\* The body of the innermost session has the control.
InBody == At("yield") /\ ~Running

(***************************************************************************)
(* The world a write acts on, and the writes themselves.                   *)
(***************************************************************************)
World == [console |-> console, files |-> files, fobj |-> fobj, tee_in |-> tee_in]

\* The result of a call: the world after it and the exception it raised.
Ok(W) == [w |-> W, exc |-> "none"]
Raise(W, e) == [w |-> W, exc |-> e]

\* The state of the log file of session s as a write finds it.
LogState(s, W) == IF W.fobj[s].state # "open" THEN "closed" ELSE W.fobj[s].fault

\* log_file.write(data): the text lands in the file object's buffer.
\* Raises on a closed file and when the file object refuses the text.
FileWrite(s, data, W) ==
    CASE LogState(s, W) = "closed" -> Raise(W, "ValueError")
      [] LogState(s, W) = "wfail" -> Raise(W, "OSError")
      [] OTHER -> Ok([W EXCEPT !.fobj[s].buf = Append(@, data)])

\* log_file.flush(): the buffer goes to the file on disk, or the flush
\* raises and the buffer keeps the text.
FileFlush(s, W) ==
    CASE LogState(s, W) = "closed" -> Raise(W, "ValueError")
      [] LogState(s, W) = "ffail" -> Raise(W, "OSError")
      [] OTHER -> Ok([W EXCEPT !.files[sess[s].log_path].content = @ \o W.fobj[s].buf,
                               !.fobj[s].buf = <<>>])

RECURSIVE StreamWrite(_, _, _)
RECURSIVE StreamFlush(_, _)

\* _TeeStream.original_stream of the tee that session s put on `which`
Original(s, which) ==
    IF which = "out" THEN sess[s].original_stdout ELSE sess[s].original_stderr

\* A flush that lets the failure of the log file out: the properties of the
\* tee must tell it from the real one.
TeeFlush_raising(s, which, W) ==
    LET r1 == StreamFlush(Original(s, which), W)
    IN  IF r1.exc # "none" THEN r1
        ELSE FileFlush(s, r1.w)

\* _TeeStream.flush
TeeFlush(s, which, W) ==
    LET r1 == StreamFlush(Original(s, which), W)
    IN  IF r1.exc # "none" THEN r1
        ELSE Ok(FileFlush(s, r1.w).w)

\* A call of write(data) on a tee of session s, as tee_in keeps it: the data
\* and the state of the two sinks when the call was made.
Call(s, data, W) == [it |-> data, log |-> LogState(s, W), con |-> ~conFault]

\* A tee that serves the log file first and gives up on the call when the
\* log file fails: the properties of the tee must tell it from the real one.
TeeWrite_logfirst(s, which, data, W) ==
    LET orig == Original(s, which)
        W0 == [W EXCEPT !.tee_in[s] = Append(@, Call(s, data, W))]
        a  == FileWrite(s, data, W0)
        b  == IF a.exc # "none" THEN a ELSE FileFlush(s, a.w)
        r1 == StreamWrite(orig, data, b.w)
    IN  IF b.exc # "none" THEN Ok(b.w)
        ELSE IF r1.exc # "none" THEN r1 ELSE StreamFlush(orig, r1.w)

\* _TeeStream.write
TeeWrite(s, which, data, W) ==
    LET orig == Original(s, which)
        W0 == [W EXCEPT !.tee_in[s] = Append(@, Call(s, data, W))]
        r1 == StreamWrite(orig, data, W0)
        r2 == IF r1.exc # "none" THEN r1 ELSE StreamFlush(orig, r1.w)
        a  == FileWrite(s, data, r2.w)
        b  == IF a.exc # "none" THEN a ELSE FileFlush(s, a.w)
    IN  IF r2.exc # "none" THEN r2
        ELSE IF b.exc # "none" THEN StreamWrite(orig, TeeWarning(s), b.w)
        ELSE b

\* stream.write(data) on the object st
StreamWrite(st, data, W) ==
    CASE st.k = "con" ->
            IF conFault THEN Raise(W, "BrokenPipeError")
            ELSE Ok([W EXCEPT !.console = Append(@, [it |-> data, w |-> st.w])])
      [] st.k = "tee" -> TeeWrite(st.s, st.w, data, W)
      [] OTHER -> Ok(W)

\* stream.flush() on the object st
StreamFlush(st, W) ==
    CASE st.k = "con" -> IF conFault THEN Raise(W, "BrokenPipeError") ELSE Ok(W)
      [] st.k = "tee" -> TeeFlush(st.s, st.w, W)
      [] OTHER -> Ok(W)

\* The stream a handler writes to.  A _StderrHandler has no stream of its
\* own: its read-only property answers sys.stderr.
HandlerStream(h) ==
    IF handlers[h].kind = "_StderrHandler" THEN sys_stderr ELSE handlers[h].stream

\* A call of the package logger: the record goes to every stream handler of
\* the root logger in turn (StreamHandler.emit: write, flush; an error is
\* handled inside the handler and never raised).
RECURSIVE LoggerCall(_, _, _, _, _)
LoggerCall(h, k, n, s, W) ==
    IF h > Len(handlers) THEN W
    ELSE IF handlers[h].kind = "NullHandler" THEN LoggerCall(h + 1, k, n, s, W)
    ELSE LET r1 == StreamWrite(HandlerStream(h), Item(k, n, s, h), W)
             r2 == IF r1.exc # "none" THEN r1 ELSE StreamFlush(HandlerStream(h), r1.w)
         IN  LoggerCall(h + 1, k, n, s, r2.w)

SetWorld(W) ==
    /\ console' = W.console
    /\ files' = W.files
    /\ fobj' = W.fobj
    /\ tee_in' = W.tee_in

(***************************************************************************)
(* The Config Modules.  A call of configure or verify runs to its end      *)
(* before anything else happens; what it reads and changes is the host.    *)
(***************************************************************************)
Modules == {"auditd", "clamav", "console", "firewall", "niauth", "syslog"}

\* A fresh image: the packages the tool is there to remove are installed,
\* the console is on, nothing is configured.
Image ==
    [ pkgs       |-> {"ni-auth", "niacctbase-sudo", "sysconfig-settings-console"},
      active     |-> {},          \* services that run
      consoleout |-> "True",      \* nirtcfg token consoleout.enabled
      persistent |-> FALSE,       \* nirtcfg token PersistentLogs.enabled
      rootpw     |-> TRUE,        \* root has a password
      policies   |-> "none",      \* the permanent firewall configuration
      etc        |-> [f \in {"clamd.conf", "freshclam.conf"} |-> "missing"],
      sigs       |-> "nodir",     \* /var/lib/clamav and its signature files
      messages   |-> 0,           \* test entries in /var/log/messages
      delivering |-> TRUE,        \* the system logger writes to /var/log/messages
      resolv_bak |-> FALSE,       \* /etc/resolv.conf.nilrt-backup is there
      freshclam_log |-> FALSE,    \* /var/lib/clamav/freshclam.log is there
      broken     |-> {},          \* commands that fail when they are run
      absent     |-> {},          \* commands that are not on the host
      helper_dry |-> FALSE,       \* the package helper holds back in a dry run
      did        |-> <<>> ]       \* the state-changing actions of the tool

\* What a call has come to: the host, what it printed and logged, the
\* checks it made, the exception on its way out, the value it returned.
Machine(h) == [host |-> h, out |-> <<>>, trace |-> <<>>, exc |-> "none", ret |-> "None"]
Line(ch, text) == [ch |-> ch, text |-> text]

\* print(...)
Say(M, text) ==
    IF M.exc # "none" THEN M ELSE [M EXCEPT !.out = Append(@, Line("print", text))]
\* logger.debug / info / warning / error
Log(M, level, text) ==
    IF M.exc # "none" THEN M ELSE [M EXCEPT !.out = Append(@, Line(level, text))]
\* The call came to check c.
Checked(M, c) ==
    IF M.exc # "none" THEN M ELSE [M EXCEPT !.trace = Append(@, c)]
Throw(M, e) == IF M.exc # "none" THEN M ELSE [M EXCEPT !.exc = e]
Return(M, v) == IF M.exc # "none" THEN M ELSE [M EXCEPT !.ret = v]
\* The tool changed the host: action a, leaving it as h.
Changed(M, a, h) == [M EXCEPT !.host = [h EXCEPT !.did = Append(@, a)]]

\* The package helper.  A helper that holds back in a dry run prints the
\* opkg command in place of running it.
is_installed(M, pkg) == pkg \in M.host.pkgs
HeldBack(M, dry) == dry /\ M.host.helper_dry
install(M, pkg, dry) ==
    IF M.exc # "none" THEN M
    ELSE IF HeldBack(M, dry) THEN Say(M, <<"Dry run: would have run ", "opkg install ", pkg>>)
    ELSE IF "opkg" \in M.host.broken THEN Throw(M, "CalledProcessError")
    ELSE Changed(M, <<"opkg install", pkg>>, [M.host EXCEPT !.pkgs = @ \cup {pkg}])
remove(M, pkg, dry) ==
    IF M.exc # "none" THEN M
    ELSE IF HeldBack(M, dry) THEN Say(M, <<"Dry run: would have run ", "opkg remove ", pkg>>)
    ELSE IF "opkg" \in M.host.broken THEN Throw(M, "CalledProcessError")
    ELSE Changed(M, <<"opkg remove", pkg>>, [M.host EXCEPT !.pkgs = @ \ {pkg}])
update(M, dry) ==
    IF M.exc # "none" THEN M
    ELSE IF HeldBack(M, dry) THEN Say(M, <<"Dry run: would have run ", "opkg update">>)
    ELSE IF "opkg" \in M.host.broken THEN Throw(M, "CalledProcessError")
    ELSE Changed(M, <<"opkg update">>, M.host)

\* What a command that went through leaves of the host.
Effect(cmd, h) ==
    CASE cmd = <<"service", "auditd", "start">> -> [h EXCEPT !.active = @ \cup {"auditd"}]
      [] cmd = <<"nirtcfg", "--set", "consoleout.enabled=False">> ->
            [h EXCEPT !.consoleout = "False"]
      [] cmd = <<"nirtcfg", "--set", "PersistentLogs.enabled=True">> ->
            [h EXCEPT !.persistent = TRUE]
      [] cmd = <<"passwd", "-d", "root">> -> [h EXCEPT !.rootpw = FALSE]
      [] cmd = <<"logger", "Test log entry for verification">> ->
            [h EXCEPT !.messages = IF h.delivering THEN @ + 1 ELSE @]
      [] cmd = <<"firewall-offline-cmd", "-q", "--reset-to-defaults">> ->
            [h EXCEPT !.policies = "none"]
      [] cmd = <<"firewall-offline-cmd", "-q", "--policy=work-out",
                 "--add-service=amqp", "--add-service=salt-master">> ->
            [h EXCEPT !.policies = "snac"]
      [] cmd = <<"makedirs", "/var/lib/clamav">> ->
            [h EXCEPT !.sigs = IF @ = "nodir" THEN "none" ELSE @]
      [] cmd = <<"write", "/var/lib/clamav/freshclam.log">> ->
            [h EXCEPT !.freshclam_log = TRUE]
      [] cmd = <<"write", "/etc/clamav/freshclam.conf">> ->
            [h EXCEPT !.etc["freshclam.conf"] = "full"]
      [] cmd = <<"write", "/etc/clamav/clamd.conf">> ->
            [h EXCEPT !.etc["clamd.conf"] = "full"]
      [] cmd = <<"copy", "/etc/resolv.conf", "/etc/resolv.conf.nilrt-backup">> ->
            [h EXCEPT !.resolv_bak = TRUE]
      [] OTHER -> h

\* subprocess.run(cmd, check=True) of a command that changes the host: a
\* command that is not there raises FileNotFoundError, one that fails
\* raises CalledProcessError.
Sub(M, cmd) ==
    IF M.exc # "none" THEN M
    ELSE IF cmd[1] \in M.host.absent THEN Throw(M, "FileNotFoundError")
    ELSE IF cmd[1] \in M.host.broken THEN Throw(M, "CalledProcessError")
    ELSE Changed(M, cmd, Effect(cmd, M.host))
\* subprocess.run(cmd, check=True) of a command that only reads
Query(M, cmd) ==
    IF M.exc # "none" THEN M
    ELSE IF cmd[1] \in M.host.absent THEN Throw(M, "FileNotFoundError")
    ELSE IF cmd[1] \in M.host.broken THEN Throw(M, "CalledProcessError")
    ELSE M
\* subprocess.run(cmd, check=False) inside try / except Exception: pass
Try(M, cmd) ==
    IF M.exc # "none" \/ cmd[1] \in M.host.absent THEN M
    ELSE Changed(M, cmd, Effect(cmd, M.host))
\* os.makedirs, os.chown, os.chmod, open(path, 'w'), shutil.copy2
Os(M, a) == IF M.exc # "none" THEN M ELSE Changed(M, a, Effect(a, M.host))

\* A run of commands, one after the other.
RECURSIVE SubAll(_, _)
SubAll(M, cmds) ==
    IF cmds = <<>> \/ M.exc # "none" THEN M
    ELSE SubAll(Sub(M, Head(cmds)), Tail(cmds))
RECURSIVE OsAll(_, _)
OsAll(M, as) ==
    IF as = <<>> \/ M.exc # "none" THEN M
    ELSE OsAll(Os(M, Head(as)), Tail(as))

(***************************************************************************)
(* auditd                                                                  *)
(***************************************************************************)
\* _check_service_status: the answer, and the call after the check
_check_service_status(M, service) ==
    LET m  == Checked(M, <<"is-active", service>>)
        ok == service \in M.host.active
    IN  [ok |-> ok,
         m  |-> IF ok THEN m ELSE Log(m, "error", <<"ERROR: ", service, " is not active.">>)]

\* _AuditdConfig.configure.  The mail address is taken as given and valid:
\* the loop that asks for one is not entered.
AuditdConfigure(M, dry) ==
    LET m1 == Say(M, <<"Configuring auditd...">>)
        m2 == IF is_installed(m1, "auditd") THEN m1 ELSE install(m1, "auditd", dry)
        m3 == SubAll(m2, << <<"update-rc.d", "auditd", "defaults">>,
                            <<"service", "auditd", "start">>,
                            <<"sed", "-i", "action_mail_acct", "/etc/audit/auditd.conf">>,
                            <<"sudo", "chown", "-R", "root:adm", "/var/log">> >>)
        m4 == Sub(Say(m3, <<"Changed group ownership to 'adm'.">>),
                  <<"sudo", "chmod", "-R", "770", "/var/log">>)
        m5 == SubAll(Say(m4, <<"Set permissions to 770.">>),
                     << <<"sudo", "setfacl", "-d", "-m", "g:adm:rwx", "/var/log">>,
                        <<"sudo", "setfacl", "-d", "-m", "o::0", "/var/log">> >>)
        m6 == Sub(Say(m5, <<"Set default ACLs for new files and directories.">>),
                  <<"sudo", "chown", "root:sudo", "/etc/audit/auditd.conf">>)
        m7 == Sub(Say(m6, <<"Changed group ownership to 'sudo'.">>),
                  <<"sudo", "chmod", "660", "/etc/audit/auditd.conf">>)
    IN  IF dry THEN m1 ELSE Say(m7, <<"Set permissions to 660.">>)

\* _AuditdConfig.verify
AuditdVerify(M, dry) ==
    LET m1 == Say(M, <<"Verifying auditd configuration...">>)
        c  == _check_service_status(m1, "auditd")
    IN  Return(c.m, IF c.ok THEN "True" ELSE "False")

(***************************************************************************)
(* console                                                                 *)
(***************************************************************************)
\* _ConsoleConfig.configure
ConsoleConfigure(M, dry) ==
    LET m1 == Say(M, <<"Deconfiguring console access...">>)
        m2 == IF ~dry
              THEN Sub(m1, <<"nirtcfg", "--set", "consoleout.enabled=False">>)
              ELSE Say(m1, <<"Dry run: would have run ", "nirtcfg --set ",
                             "section=systemsettings,token=consoleout.enabled,value=False">>)
    IN  remove(m2, "sysconfig-settings-console", dry)

\* _ConsoleConfig.verify
ConsoleVerify(M, dry) ==
    LET m1 == Say(M, <<"Verifying console access configuration...">>)
        m2 == IF ~dry
              THEN Query(Checked(m1, <<"nirtcfg", "consoleout.enabled">>),
                         <<"nirtcfg", "--get", "consoleout.enabled">>)
              ELSE Say(m1, <<"Dry run: would have run ", "nirtcfg --get ",
                             "section=systemsettings,token=consoleout.enabled">>)
        off == dry \/ m2.host.consoleout = "False"
        m3 == IF off THEN m2 ELSE Log(m2, "error", <<"FOUND: console access not diabled">>)
        m4 == Checked(m3, <<"is_installed", "sysconfig-settings-console">>)
        gone == ~is_installed(m4, "sysconfig-settings-console")
        m5 == IF gone THEN m4
              ELSE Log(m4, "error", <<"FOUND: sysconfig-settings-console still installed.">>)
    IN  Return(m5, IF off /\ gone THEN "True" ELSE "False")

(***************************************************************************)
(* NIAuth                                                                  *)
(***************************************************************************)
\* _NIAuthConfig.configure
NIAuthConfigure(M, dry) ==
    LET m1 == Say(M, <<"Removing NIAuth...">>)
        m2 == remove(remove(m1, "ni-auth", dry), "niacctbase-sudo", dry)
        m3 == IF is_installed(m2, "nilrt-snac-conflicts") THEN m2
              ELSE install(m2, "nilrt-snac-conflicts", dry)
        m4 == Log(m3, "debug", <<"Removing root password">>)
    IN  IF ~dry THEN Sub(m4, <<"passwd", "-d", "root">>)
        ELSE Say(m4, <<"Dry run: would have run ", "passwd -d root">>)

\* _NIAuthConfig.verify
NIAuthVerify(M, dry) ==
    LET m1 == Checked(Say(M, <<"Verifying NIAuth...">>), <<"is_installed", "ni-auth">>)
        a  == ~is_installed(m1, "ni-auth")
        m2 == Checked(IF a THEN m1 ELSE Log(m1, "error", <<"FOUND: ni-auth installed">>),
                      <<"is_installed", "niacctbase-sudo">>)
        b  == ~is_installed(m2, "niacctbase-sudo")
        m3 == Checked(IF b THEN m2
                      ELSE Log(m2, "error", <<"FOUND: niacctbase-sudo installed">>),
                      <<"is_installed", "nilrt-snac-conflicts">>)
        c  == is_installed(m3, "nilrt-snac-conflicts")
        m4 == IF c THEN m3
              ELSE Log(m3, "error", <<"MISSING: nilrt-snac-conflicts not installed">>)
    IN  Return(m4, IF a /\ b /\ c THEN "True" ELSE "False")

(***************************************************************************)
(* syslog-ng                                                               *)
(***************************************************************************)
\* _SyslogConfig.configure
SyslogConfigure(M, dry) ==
    LET m1 == Say(M, <<"Configuring syslog-ng...">>)
        m2 == IF is_installed(m1, "syslog-ng") THEN m1 ELSE install(m1, "syslog-ng", dry)
    IN  IF dry THEN m1
        ELSE Sub(m2, <<"nirtcfg", "--set", "PersistentLogs.enabled=True">>)

\* _SyslogConfig.verify.  grep prints matching lines only and ends with a
\* code other than zero when there is none, which check=True raises: the
\* last line it prints always holds the test message.
SyslogVerify(M, dry) ==
    LET m1 == Say(M, <<"Verifying syslog-ng configuration...">>)
        m2 == Sub(m1, <<"logger", "Test log entry for verification">>)
        m3 == Query(Checked(m2, <<"grep", "/var/log/messages">>),
                    <<"grep", "Test log entry for verification", "/var/log/messages">>)
        m4 == IF m3.host.messages = 0 THEN Throw(m3, "CalledProcessError") ELSE m3
    IN  Return(m4, "True")

(***************************************************************************)
(* firewall                                                                *)
(***************************************************************************)
\* _cmd / _offlinecmd of the firewall module
FirewallCmd(M, dry, bin, args) ==
    IF ~dry THEN Sub(M, <<bin, "-q">> \o args)
    ELSE Say(M, <<"Dry run: would have run ", bin, " -q">> \o args)
RECURSIVE _offlinecmds(_, _, _)
_offlinecmds(M, dry, calls) ==
    IF calls = <<>> \/ M.exc # "none" THEN M
    ELSE _offlinecmds(FirewallCmd(M, dry, "firewall-offline-cmd", Head(calls)), dry,
                      Tail(calls))

\* The calls of _offlinecmd in _FirewallConfig.configure, in order.
OfflineCalls ==
    << <<"--reset-to-defaults">>,
       <<"--zone=work", "--add-interface=wglv0">>,
       <<"--zone=work", "--remove-forward">>,
       <<"--zone=public", "--remove-forward">>,
       <<"--new-policy=work-in">>,
       <<"--policy=work-in", "--add-ingress-zone=work">>,
       <<"--policy=work-in", "--add-egress-zone=HOST">>,
       <<"--policy=work-in", "--add-protocol=icmp">>,
       <<"--policy=work-in", "--add-protocol=ipv6-icmp">>,
       <<"--policy=work-in", "--add-service=ssh", "--add-service=mdns">>,
       <<"--new-policy=work-out">>,
       <<"--policy=work-out", "--add-ingress-zone=HOST">>,
       <<"--policy=work-out", "--add-egress-zone=work">>,
       <<"--policy=work-out", "--add-protocol=icmp">>,
       <<"--policy=work-out", "--add-protocol=ipv6-icmp">>,
       <<"--policy=work-out", "--add-service=ssh", "--add-service=http",
         "--add-service=https">>,
       <<"--policy=work-out", "--set-target=REJECT">>,
       <<"--new-policy=public-in">>,
       <<"--policy=public-in", "--add-ingress-zone=public">>,
       <<"--policy=public-in", "--add-egress-zone=HOST">>,
       <<"--policy=public-in", "--add-protocol=icmp">>,
       <<"--policy=public-in", "--add-protocol=ipv6-icmp">>,
       <<"--policy=public-in", "--add-service=ssh", "--add-service=wireguard">>,
       <<"--new-policy=public-out">>,
       <<"--policy=public-out", "--add-ingress-zone=HOST">>,
       <<"--policy=public-out", "--add-egress-zone=public">>,
       <<"--policy=public-out", "--add-protocol=icmp">>,
       <<"--policy=public-out", "--add-protocol=ipv6-icmp">>,
       <<"--policy=public-out", "--add-service=dhcp", "--add-service=dhcpv6",
         "--add-service=http", "--add-service=https", "--add-service=wireguard",
         "--add-service=dns", "--add-service=ntp">>,
       <<"--policy=public-out", "--set-target=REJECT">>,
       <<"--policy=work-in", "--add-service=ni-labview-realtime",
         "--add-service=ni-labview-viserver", "--add-service=ni-logos-xt",
         "--add-service=ni-mxs", "--add-service=ni-rpc-server",
         "--add-service=ni-service-locator">>,
       <<"--policy=work-in", "--add-port=55184/tcp">>,
       <<"--policy=work-out", "--add-service=amqp", "--add-service=salt-master">> >>

\* _FirewallConfig.configure
FirewallConfigure(M, dry) ==
    LET m1 == Say(M, <<"Configuring firewall...">>)
        m2 == install(install(install(install(m1, "firewalld", dry),
                  "firewalld-offline-cmd", dry), "firewalld-log-rotate", dry),
                  "ni-firewalld-servicedefs", dry)
        m3 == _offlinecmds(m2, dry, OfflineCalls)
    IN  FirewallCmd(m3, dry, "firewall-cmd", <<"--reload">>)

\* The checks of _FirewallConfig.verify that are called as they are
\* declared: _check_target and _check_service, with what each expects.
FirewallChecks ==
    << <<"--policy=work-in", "--get-target", "CONTINUE">>,
       <<"--policy=work-out", "--get-target", "REJECT">>,
       <<"--policy=public-in", "--get-target", "CONTINUE">>,
       <<"--policy=public-out", "--get-target", "REJECT">>,
       <<"--policy=work-in", "--query-service=ni-labview-realtime", "yes">>,
       <<"--policy=public-in", "--query-service=ni-labview-realtime", "no">>,
       <<"--zone=public", "--query-service=ni-labview-realtime", "no">> >>

\* What firewall-cmd --permanent answers to the question of check c.
\* The permanent configuration is the one configure makes ("snac"), the
\* package's own ("none": no such policies, the service in no zone), or
\* one that lets everything through ("open").
Observed(h, c) ==
    IF "firewall-cmd" \in h.absent THEN "sh: firewall-cmd: not found"
    ELSE IF h.policies = "snac" THEN c[3]
    ELSE IF h.policies = "open" /\ c[2] = "--get-target" THEN "ACCEPT"
    ELSE IF h.policies = "open" THEN "yes"
    ELSE IF c[1] = "--zone=public" THEN "no"
    ELSE "Error: INVALID_POLICY"

\* _check_target / _check_service
FirewallCheck(M, dry, c) ==
    IF dry THEN [ok |-> TRUE,
                 m  |-> Say(M, <<"Dry run: would have run ", "firewall-cmd ", c[1], c[2]>>)]
    ELSE LET m  == Checked(M, <<"firewall-cmd", c[1], c[2]>>)
             ok == Observed(M.host, c) = c[3]
         IN  [ok |-> ok,
              m  |-> IF ok THEN m
                     ELSE Log(m, "error", <<"ERROR: ", c[1], c[2], ": expected ", c[3],
                                            ", observed ", Observed(M.host, c)>>)]

\* The elements of the list that verify hands to all(), evaluated in order.
RECURSIVE FirewallList(_, _, _, _)
FirewallList(M, dry, cs, oks) ==
    IF cs = <<>> \/ M.exc # "none" THEN [oks |-> oks, m |-> M]
    ELSE LET r == FirewallCheck(M, dry, Head(cs))
         IN  FirewallList(r.m, dry, Tail(cs), Append(oks, r.ok))

\* _FirewallConfig.verify.  The last element of the list calls
\* _check_service_info with three arguments where it takes four: the call
\* raises TypeError before all() is reached.
FirewallVerify(M, dry) ==
    LET m1 == Checked(Say(M, <<"Verifying firewall configuration...">>),
                      <<"pidof", "firewalld">>)
        m2 == IF "firewalld" \in m1.host.active THEN m1
              ELSE Log(m1, "error", <<"MISSING: running firewalld">>)
        m3 == Checked(m2, <<"firewall-cmd", "--check-config">>)
        m4 == IF dry THEN Say(m3, <<"Dry run: would have run ", "firewall-cmd -q ",
                                    "--check-config">>)
              ELSE IF "firewall-cmd" \in m3.host.absent
                   THEN Log(m3, "error", <<"MISSING: firewall-cmd">>)
              ELSE Query(m3, <<"firewall-cmd", "-q", "--check-config">>)
        r  == FirewallList(m4, dry, FirewallChecks, <<>>)
    IN  Throw(r.m, "TypeError")

(***************************************************************************)
(* ClamAV                                                                  *)
(***************************************************************************)
package_names == <<"clamav", "clamav-daemon", "clamav-freshclam">>
installed_packages(M) == SelectSeq(package_names, LAMBDA p : is_installed(M, p))

\* _install_clamav_packages: the loop over the packages.  A package that
\* fails to install is passed over with a warning.
RECURSIVE InstallEach(_, _, _)
InstallEach(M, dry, pkgs) ==
    IF pkgs = <<>> THEN M
    ELSE IF is_installed(M, Head(pkgs)) THEN InstallEach(M, dry, Tail(pkgs))
    ELSE LET m1 == Say(M, <<"Installing ", Head(pkgs), "...">>)
             m2 == install(m1, Head(pkgs), dry)
             m3 == IF m2.exc # "none"
                   THEN Log(m1, "warning", <<"Failed to install ", Head(pkgs)>>)
                   ELSE Log(m2, "info", <<"Successfully installed ", Head(pkgs)>>)
         IN  InstallEach(m3, dry, Tail(pkgs))

\* _backup_dns_configuration, _install_clamav_packages and
\* _fix_dns_configuration, on a host whose /etc/resolv.conf is a file that
\* names its servers
_install_clamav_packages(M, dry) ==
    LET m1 == IF M.host.resolv_bak THEN M
              ELSE Log(Os(M, <<"copy", "/etc/resolv.conf", "/etc/resolv.conf.nilrt-backup">>),
                       "info", <<"Backed up existing /etc/resolv.conf">>)
        m2 == update(Say(m1, <<"Updating package list...">>), dry)
        m3 == IF m2.exc # "none"
              THEN [Log([m2 EXCEPT !.exc = "none"], "error",
                        <<"Failed to install ClamAV packages">>) EXCEPT !.exc = m2.exc]
              ELSE InstallEach(m2, dry, package_names)
    IN  Log(m3, "info", <<"DNS configuration is working properly">>)

\* _configure_clamav_files and _create_wrapper_script, on a host that has
\* the user and the group clamav
_configure_clamav_files(M) ==
    LET m0 == OsAll(M, << <<"makedirs", "/etc/clamav">>,
                          <<"makedirs", "/var/lib/clamav">>,
                          <<"chown", "/var/lib/clamav", "clamav">>,
                          <<"chmod", "/var/lib/clamav", "755">> >>)
        m1 == Os(IF m0.host.freshclam_log THEN m0
                 ELSE Os(m0, <<"write", "/var/lib/clamav/freshclam.log">>),
                 <<"write", "/etc/clamav/freshclam.conf">>)
        m2 == Os(Log(m1, "info", <<"Created freshclam configuration">>),
                 <<"write", "/etc/clamav/clamd.conf">>)
        m3 == Try(Try(Log(m2, "info", <<"Created clamd configuration">>),
                      <<"systemctl", "disable", "clamav-daemon">>),
                  <<"systemctl", "stop", "clamav-daemon">>)
        m4 == Try(Try(Say(m3, <<"ClamAV daemon service disabled">>),
                      <<"systemctl", "disable", "clamav-freshclam">>),
                  <<"systemctl", "stop", "clamav-freshclam">>)
        m5 == Try(Try(Say(m4, <<"ClamAV freshclam service disabled">>),
                      <<"update-rc.d", "clamav-daemon", "disable">>),
                  <<"update-rc.d", "clamav-freshclam", "disable">>)
        m6 == Say(m5, <<"ClamAV configured for manual operation only.">>)
        m7 == Os(m6, <<"write", "/usr/local/bin/clamav-scan">>)
    IN  Log(m7, "info", <<"Created ClamAV wrapper script">>)

\* _ClamAVConfig.configure: args is never read.  The closing print calls
\* are one line here.
ClamAVConfigure(M, dry) ==
    LET m1 == IF installed_packages(M) = <<>>
              THEN _install_clamav_packages(Say(M, <<"Installing ClamAV packages...">>), dry)
              ELSE Say(M, <<"ClamAV packages already installed: ">> \o installed_packages(M))
    IN  Say(_configure_clamav_files(m1), <<"CLAMAV INSTALLATION COMPLETED">>)

\* _show_signature_installation_instructions
_show_signature_installation_instructions(M) ==
    Log(Log(Log(Log(M, "info", <<"To install virus signatures, choose one method:">>),
                "info", <<"  1. Online: sudo freshclam">>),
            "info", <<"  2. Offline: sudo opkg install clamav-db-*.ipk">>),
        "info", <<"  3. Manual: copy *.cvd/*.cld files to /var/lib/clamav/">>)

\* The check of one configuration file in _ClamAVConfig.verify
ClamFile(M, f) ==
    LET m == Checked(M, <<"exists", f>>)
    IN  [ok |-> M.host.etc[f] = "full",
         m  |-> CASE M.host.etc[f] = "missing" ->
                        Log(m, "error", <<"ClamAV config file missing: ", f>>)
                  [] M.host.etc[f] = "empty" ->
                        Log(m, "error", <<"ClamAV config file is empty: ", f>>)
                  [] OTHER -> m]

\* A verify that fails when the signatures are not valid: the properties of
\* the ClamAV check must tell it from the real one.
ClamAVVerify_strict(M, dry) ==
    LET a == ClamFile(Say(M, <<"Verifying clamav configuration...">>), "clamd.conf")
        b == ClamFile(a.m, "freshclam.conf")
        m == IF b.m.host.sigs = "valid" THEN b.m
             ELSE Log(b.m, "warning", <<"ClamAV requires virus signatures to function properly.">>)
    IN  IF installed_packages(M) # <<>>
        THEN Return(m, IF a.ok /\ b.ok /\ b.m.host.sigs = "valid" THEN "True" ELSE "False")
        ELSE Return(Say(M, <<"ClamAV is not installed; skipping verification.">>), "True")

\* _ClamAVConfig.verify
ClamAVVerify(M, dry) ==
    LET m1 == Say(M, <<"Verifying clamav configuration...">>)
        a  == ClamFile(m1, "clamd.conf")
        b  == ClamFile(a.m, "freshclam.conf")
        m2 == Checked(b.m, <<"signatures", "/var/lib/clamav/">>)
        m3 == CASE m2.host.sigs = "nodir" ->
                      Log(m2, "warning", <<"ClamAV virus database directory missing">>)
                [] m2.host.sigs = "none" ->
                      Log(m2, "warning", <<"No ClamAV signature files found">>)
                [] m2.host.sigs = "empty" ->
                      Log(m2, "warning", <<"All ClamAV signature files are empty or invalid">>)
                [] OTHER -> Log(m2, "info", <<"ClamAV signatures found">>)
        m4 == IF m2.host.sigs = "valid" THEN m3
              ELSE _show_signature_installation_instructions(
                      Log(m3, "warning",
                          <<"ClamAV requires virus signatures to function properly.">>))
        m5 == IF a.ok /\ b.ok THEN Log(m4, "info", <<"ClamAV verification passed.">>) ELSE m4
    IN  IF installed_packages(M) # <<>>
        THEN Return(m5, IF a.ok /\ b.ok THEN "True" ELSE "False")
        ELSE Return(Say(M, <<"ClamAV is not installed; skipping verification.">>), "True")

(***************************************************************************)
(* The calls and what happens to the host between them.                    *)
(***************************************************************************)
configure(module, M, dry) ==
    CASE module = "auditd" -> AuditdConfigure(M, dry)
      [] module = "clamav" -> ClamAVConfigure(M, dry)
      [] module = "console" -> ConsoleConfigure(M, dry)
      [] module = "firewall" -> FirewallConfigure(M, dry)
      [] module = "niauth" -> NIAuthConfigure(M, dry)
      [] OTHER -> SyslogConfigure(M, dry)

verify(module, M, dry) ==
    CASE module = "auditd" -> AuditdVerify(M, dry)
      [] module = "clamav" -> ClamAVVerify(M, dry)
      [] module = "console" -> ConsoleVerify(M, dry)
      [] module = "firewall" -> FirewallVerify(M, dry)
      [] module = "niauth" -> NIAuthVerify(M, dry)
      [] OTHER -> SyslogVerify(M, dry)

NoCall == [module |-> "none", op |-> "none", dry |-> FALSE,
           before |-> Image, m |-> Machine(Image)]

\* module.configure(args) with args.dry_run = dry
Configure(module, dry) ==
    /\ ncalls < MaxCalls
    /\ ncalls' = ncalls + 1
    /\ LET m == configure(module, Machine(host), dry)
       IN  /\ call' = [module |-> module, op |-> "configure", dry |-> dry,
                       before |-> host, m |-> m]
           /\ host' = m.host
    /\ UNCHANGED ndrifts
    /\ UNCHANGED <<now, umask, groupExists, dir, files, fobj, sys_stdout,
                   sys_stderr, handlers, console, conFault, sess, stack, tee_in,
                   warned, exit_kind, nwrites, nticks, nfaults>>
    /\ UNCHANGED runvars

\* module.verify(args) with args.dry_run = dry
Verify(module, dry) ==
    /\ ncalls < MaxCalls
    /\ ncalls' = ncalls + 1
    /\ LET m == verify(module, Machine(host), dry)
       IN  /\ call' = [module |-> module, op |-> "verify", dry |-> dry,
                       before |-> host, m |-> m]
           /\ host' = m.host
    /\ UNCHANGED ndrifts
    /\ UNCHANGED <<now, umask, groupExists, dir, files, fobj, sys_stdout,
                   sys_stderr, handlers, console, conFault, sess, stack, tee_in,
                   warned, exit_kind, nwrites, nticks, nfaults>>
    /\ UNCHANGED runvars

\* What can become of the host behind the tool's back: a service starts or
\* stops, a package comes or goes, a setting, a file or the firewall
\* configuration changes, a command breaks or disappears.
Toggle(S, x) == IF x \in S THEN S \ {x} ELSE S \cup {x}
Drifts(h) ==
    { [h EXCEPT !.active = Toggle(@, s)] : s \in {"auditd", "firewalld"} }
    \cup { [h EXCEPT !.pkgs = Toggle(@, p)] :
             p \in {"ni-auth", "niacctbase-sudo", "nilrt-snac-conflicts", "clamav",
                    "sysconfig-settings-console"} }
    \cup { [h EXCEPT !.consoleout = IF @ = "False" THEN "True" ELSE "False"] }
    \cup { [h EXCEPT !.policies = p] : p \in {"none", "snac", "open"} }
    \cup { [h EXCEPT !.etc[f] = s] : f \in {"clamd.conf", "freshclam.conf"},
                                     s \in {"missing", "empty", "full"} }
    \cup { [h EXCEPT !.sigs = s] : s \in {"nodir", "none", "empty", "valid"} }
    \cup { [h EXCEPT !.delivering = ~@] }
    \cup { [h EXCEPT !.broken = Toggle(@, c)] : c \in {"nirtcfg", "opkg"} }
    \cup { [h EXCEPT !.absent = Toggle(@, "firewall-cmd")] }

Drift ==
    /\ ndrifts < MaxDrifts
    /\ ndrifts' = ndrifts + 1
    /\ \E h \in Drifts(host) \ {host} : host' = h
    /\ UNCHANGED <<call, ncalls>>
    /\ UNCHANGED <<now, umask, groupExists, dir, files, fobj, sys_stdout,
                   sys_stderr, handlers, console, conFault, sess, stack, tee_in,
                   warned, exit_kind, nwrites, nticks, nfaults>>
    /\ UNCHANGED runvars

\* A CalledProcessError(returncode, cmd), or another exception by its name.
Error(kind, returncode, cmd) == [kind |-> kind, returncode |-> returncode, cmd |-> cmd]
NoError == Error("none", 0, <<>>)
\* A CompletedProcess(args, returncode, stdout).
CompletedProcess(args, returncode, stdout) ==
    [args |-> args, returncode |-> returncode, stdout |-> stdout]
NoResult == CompletedProcess(<<>>, 0, <<>>)

\* No run_with_logging call has been made.
NoRun == [pc |-> "none", args |-> <<>>, check |-> TRUE, line |-> 0,
          read |-> <<>>, exit |-> 0, output_lines |-> <<>>, returncode |-> 0,
          error |-> NoError, result |-> NoResult]

(***************************************************************************)
(* Initial state: a process that has started no session, on a host whose   *)
(* log directory is absent, is a directory left with another mode and      *)
(* group, or is not a directory.                                           *)
(***************************************************************************)
DirStates ==
    { [kind |-> "absent", mode |-> {}, group |-> "none"],
      [kind |-> "dir", mode |-> AllBits, group |-> "users"],
      [kind |-> "file", mode |-> {"ur", "uw"}, group |-> "root"] }

Handler(kind, stream) == [kind |-> kind, stream |-> stream]

\* What the driver's logging set-up leaves on the root logger.
InitialHandlers == <<Handler("StreamHandler", Con("err"))>>

\* The kinds of handler: a logging.StreamHandler, a StreamHandler whose stream
\* is a read-only property (logging._StderrHandler), and a handler that is no
\* StreamHandler.
HandlerKinds == {"StreamHandler", "_StderrHandler", "NullHandler"}

Init ==
    /\ now = StartSecond * TicksPerSecond
    /\ umask \in Umasks
    /\ groupExists \in BOOLEAN
    /\ dir \in DirStates
    /\ files = NoFiles
    /\ fobj = <<>>
    /\ sys_stdout = Con("out")
    /\ sys_stderr = Con("err")
    /\ handlers = InitialHandlers
    /\ console = <<>>
    /\ conFault = FALSE
    /\ sess = <<>>
    /\ stack = <<>>
    /\ tee_in = <<>>
    /\ warned = <<>>
    /\ exit_kind = "none"
    /\ nwrites = 0
    /\ nticks = 0
    /\ nfaults = 0
    /\ run = NoRun
    /\ nruns = 0
    /\ host = Image
    /\ call = NoCall
    /\ ncalls = 0
    /\ ndrifts = 0

NewSession(command) ==
    [ pc |-> "mkdir", command |-> command,
      log_path |-> NoPath, t_name |-> 0,
      original_stdout |-> NoStream, original_stderr |-> NoStream,
      log_file |-> FALSE, ohs |-> <<>>, i |-> 0, exc |-> "none",
      pre_stdout |-> sys_stdout, pre_stderr |-> sys_stderr,
      pre_handlers |-> [h \in 1..Len(handlers) |-> HandlerStream(h)],
      pre_dir |-> dir,
      trace |-> <<>>, started |-> FALSE, existed |-> FALSE ]

\* Position p of the current frame, with op added to what it has done.
Did(op, p) == [sess EXCEPT ![cur].pc = p, ![cur].trace = Append(@, op)]
\* The current frame raises e at op and continues at p.
Fails(op, e, p) ==
    [sess EXCEPT ![cur].pc = p, ![cur].exc = e, ![cur].trace = Append(@, op \o "!")]

\* with logging_context(command, args): the generator is created and entered.
Enter(command) ==
    /\ MayTake
    /\ sess = <<>> => command = "verify"
    /\ Len(sess) < MaxSessions
    /\ Idle
    /\ sess' = Append(sess, NewSession(command))
    /\ fobj' = Append(fobj, NoFile)
    /\ tee_in' = Append(tee_in, <<>>)
    /\ stack' = Append(stack, Len(sess) + 1)
    /\ UNCHANGED <<now, umask, groupExists, dir, files, sys_stdout, sys_stderr,
                   handlers, console, conFault, warned, exit_kind, nwrites,
                   nticks, nfaults>>
    /\ UNCHANGED runvars
    /\ UNCHANGED cfgvars

(***************************************************************************)
(* _create_log_directory                                                   *)
(***************************************************************************)
\* A mkdir whose failure is passed over, the entry going on: the properties
\* of a failed entry must tell it from the real one.
Mkdir_unchecked ==
    /\ At("mkdir")
    /\ IF dir.kind = "file"
       THEN /\ sess' = [sess EXCEPT ![cur].pc = "chmod_dir",
                                    ![cur].trace = Append(@, "mkdir!")]
            /\ UNCHANGED <<dir, nfaults>>
       ELSE /\ sess' = Did("mkdir", "chmod_dir")
            /\ dir' = IF dir.kind = "dir" THEN dir
                      ELSE [kind |-> "dir", mode |-> AllBits \ umask,
                            group |-> ProcessGroup]
            /\ nfaults' = nfaults
    /\ UNCHANGED <<now, umask, groupExists, files, fobj, sys_stdout, sys_stderr,
                   handlers, console, conFault, stack, tee_in, warned,
                   exit_kind, nwrites, nticks>>
    /\ UNCHANGED runvars
    /\ UNCHANGED cfgvars

\* LOG_DIR.mkdir(parents=True, exist_ok=True)
Mkdir ==
    /\ At("mkdir")
    /\ IF dir.kind = "file"
       THEN /\ sess' = Fails("mkdir", "FileExistsError", "done")
            /\ UNCHANGED <<dir, nfaults>>
       ELSE \E r \in Outcomes({"PermissionError"}) :
              /\ nfaults' = Charged(r)
              /\ IF r = "ok"
                 THEN /\ sess' = Did("mkdir", "chmod_dir")
                      /\ dir' = IF dir.kind = "dir" THEN dir
                                ELSE [kind |-> "dir", mode |-> AllBits \ umask,
                                      group |-> ProcessGroup]
                 ELSE /\ sess' = Fails("mkdir", r, "done")
                      /\ dir' = dir
    /\ UNCHANGED <<now, umask, groupExists, files, fobj, sys_stdout, sys_stderr,
                   handlers, console, conFault, stack, tee_in, warned,
                   exit_kind, nwrites, nticks>>
    /\ UNCHANGED runvars
    /\ UNCHANGED cfgvars

\* A chmod that gives the mode as a creation would, less the umask: the
\* properties of the directory must tell it from the real one.
ChmodDir_masked ==
    /\ At("chmod_dir")
    /\ sess' = Did("chmod_dir", "chown_dir")
    /\ dir' = [dir EXCEPT !.mode = DIR_PERMISSIONS \ umask]
    /\ UNCHANGED <<now, umask, groupExists, files, fobj, sys_stdout, sys_stderr,
                   handlers, console, conFault, stack, tee_in, warned,
                   exit_kind, nwrites, nticks, nfaults>>
    /\ UNCHANGED runvars
    /\ UNCHANGED cfgvars

\* os.chmod(LOG_DIR, DIR_PERMISSIONS)
ChmodDir ==
    /\ At("chmod_dir")
    /\ \E r \in Outcomes({"PermissionError"}) :
         /\ nfaults' = Charged(r)
         /\ IF r = "ok"
            THEN /\ sess' = Did("chmod_dir", "chown_dir")
                 /\ dir' = [dir EXCEPT !.mode = DIR_PERMISSIONS]
            ELSE /\ sess' = Fails("chmod_dir", r, "done")
                 /\ dir' = dir
    /\ UNCHANGED <<now, umask, groupExists, files, fobj, sys_stdout, sys_stderr,
                   handlers, console, conFault, stack, tee_in, warned,
                   exit_kind, nwrites, nticks>>
    /\ UNCHANGED runvars
    /\ UNCHANGED cfgvars

\* grp.getgrnam(LOG_GROUP); os.chown(LOG_DIR, -1, adm_gid); except KeyError:
\* logger.warning(...)
ChownDir ==
    /\ At("chown_dir")
    /\ IF groupExists
       THEN /\ \E r \in Outcomes({"PermissionError"}) :
                 /\ nfaults' = Charged(r)
                 /\ IF r = "ok"
                    THEN /\ sess' = Did("chown_dir", "name")
                         /\ dir' = [dir EXCEPT !.group = LOG_GROUP]
                    ELSE /\ sess' = Fails("chown_dir", r, "done")
                         /\ dir' = dir
            /\ UNCHANGED <<console, files, fobj, tee_in, warned>>
       ELSE /\ sess' = Did("warn_dir", "name")
            /\ warned' = Append(warned, [s |-> cur, what |-> "dir"])
            /\ SetWorld(LoggerCall(1, "gwarn", 1, cur, World))
            /\ UNCHANGED <<dir, nfaults>>
    /\ UNCHANGED <<now, umask, groupExists, sys_stdout, sys_stderr, handlers,
                   conFault, stack, exit_kind, nwrites, nticks>>
    /\ UNCHANGED runvars
    /\ UNCHANGED cfgvars

(***************************************************************************)
(* logging_context, up to the yield                                        *)
(***************************************************************************)
\* log_filename, log_path and the saved originals
GenName ==
    /\ At("name")
    /\ sess' = [sess EXCEPT
                  ![cur].pc = "open",
                  ![cur].log_path = _generate_log_filename(sess[cur].command, now),
                  ![cur].t_name = now,
                  ![cur].original_stdout = sys_stdout,
                  ![cur].original_stderr = sys_stderr]
    /\ UNCHANGED <<now, umask, groupExists, dir, files, fobj, sys_stdout,
                   sys_stderr, handlers, console, conFault, stack, tee_in,
                   warned, exit_kind, nwrites, nticks, nfaults>>
    /\ UNCHANGED runvars
    /\ UNCHANGED cfgvars

\* What os.open(path, O_WRONLY | O_CREAT | O_EXCL, mode) creates: the umask
\* is masked out of the mode asked for.
Created(mode, s) ==
    [mode |-> mode \ umask, group |-> ProcessGroup, content |-> <<>>, creator |-> s]

\* An open without O_EXCL, which takes over and empties a file that is
\* there: the properties of exclusive creation must tell it from the real one.
OpenLog_truncating ==
    /\ At("open")
    /\ LET p == sess[cur].log_path
       IN  /\ sess' = [Did("open", "fchown") EXCEPT
                         ![cur].log_file = TRUE, ![cur].existed = p \in DOMAIN files]
           /\ files' = (p :> Created(LOG_PERMISSIONS, cur)) @@ files
           /\ fobj' = [fobj EXCEPT ![cur].state = "open"]
    /\ UNCHANGED <<now, umask, groupExists, dir, sys_stdout, sys_stderr,
                   handlers, console, conFault, stack, tee_in, warned,
                   exit_kind, nwrites, nticks, nfaults>>
    /\ UNCHANGED runvars
    /\ UNCHANGED cfgvars

\* fd = os.open(log_path, O_WRONLY | O_CREAT | O_EXCL, LOG_PERMISSIONS);
\* log_file = os.fdopen(fd, "w")
OpenLog ==
    /\ At("open")
    /\ LET p == sess[cur].log_path
       IN  IF p \in DOMAIN files
           THEN /\ sess' = [Fails("open", "FileExistsError", "restore")
                              EXCEPT ![cur].existed = TRUE]
                /\ UNCHANGED <<files, fobj, nfaults>>
           ELSE \E r \in Outcomes({"PermissionError", "OSError"}) :
                  /\ nfaults' = Charged(r)
                  /\ IF r = "ok"
                     THEN /\ sess' = [Did("open", "fchown") EXCEPT ![cur].log_file = TRUE]
                          /\ files' = files @@ (p :> Created(LOG_PERMISSIONS, cur))
                          /\ fobj' = [fobj EXCEPT ![cur].state = "open"]
                     ELSE /\ sess' = Fails("open", r, "restore")
                          /\ UNCHANGED <<files, fobj>>
    /\ UNCHANGED <<now, umask, groupExists, dir, sys_stdout, sys_stderr,
                   handlers, console, conFault, stack, tee_in, warned,
                   exit_kind, nwrites, nticks>>
    /\ UNCHANGED runvars
    /\ UNCHANGED cfgvars

\* An entry that leaves the group of the log file as it was created: the
\* properties of the order of entry must tell it from the real one.
Fchown_skipped ==
    /\ At("fchown")
    /\ sess' = Did("fchown", "header")
    /\ UNCHANGED <<now, umask, groupExists, dir, files, fobj, sys_stdout,
                   sys_stderr, handlers, console, conFault, stack, tee_in,
                   warned, exit_kind, nwrites, nticks, nfaults>>
    /\ UNCHANGED runvars
    /\ UNCHANGED cfgvars

\* grp.getgrnam(LOG_GROUP); os.fchown(fd, -1, adm_gid); except KeyError:
\* logger.warning(...)
Fchown ==
    /\ At("fchown")
    /\ LET p == sess[cur].log_path
       IN  IF groupExists
           THEN /\ \E r \in Outcomes({"PermissionError"}) :
                     /\ nfaults' = Charged(r)
                     /\ IF r = "ok"
                        THEN /\ sess' = Did("fchown", "header")
                             /\ files' = [files EXCEPT ![p].group = LOG_GROUP]
                        ELSE /\ sess' = Fails("fchown", r, "restore")
                             /\ files' = files
                /\ UNCHANGED <<console, fobj, tee_in, warned>>
           ELSE /\ sess' = Did("warn_file", "header")
                /\ warned' = Append(warned, [s |-> cur, what |-> "file"])
                /\ SetWorld(LoggerCall(1, "gwarn", 2, cur, World))
                /\ nfaults' = nfaults
    /\ UNCHANGED <<now, umask, groupExists, dir, sys_stdout, sys_stderr,
                   handlers, conFault, stack, exit_kind, nwrites, nticks>>
    /\ UNCHANGED runvars
    /\ UNCHANGED cfgvars

\* log_file.write(text); log_file.flush()
WriteAndFlush(s, data, W) ==
    LET a == FileWrite(s, data, W)
    IN  IF a.exc # "none" THEN a ELSE FileFlush(s, a.w)

\* _write_log_header(log_file, command, args)
WriteHeader ==
    /\ At("header")
    /\ LET r == WriteAndFlush(cur, Header(cur), World)
       IN  /\ SetWorld(r.w)
           /\ sess' = IF r.exc # "none" THEN Fails("header", r.exc, "restore")
                      ELSE Did("header", "tee")
    /\ UNCHANGED <<now, umask, groupExists, dir, sys_stdout, sys_stderr,
                   handlers, conFault, stack, warned, exit_kind, nwrites,
                   nticks, nfaults>>
    /\ UNCHANGED runvars
    /\ UNCHANGED cfgvars

\* sys.stdout = _TeeStream(original_stdout, log_file); the same for sys.stderr
InstallTees ==
    /\ At("tee")
    /\ sys_stdout' = Tee(cur, "out")
    /\ sys_stderr' = Tee(cur, "err")
    /\ sess' = [Did("tee", "redirect") EXCEPT ![cur].i = 1]
    /\ UNCHANGED <<now, umask, groupExists, dir, files, fobj, handlers, console,
                   conFault, stack, tee_in, warned, exit_kind, nwrites, nticks,
                   nfaults>>
    /\ UNCHANGED runvars
    /\ UNCHANGED cfgvars

\* An entry that installs the tees and yields, leaving the handlers on the
\* streams they had: the properties of the redirection must tell it from the
\* real one.
Redirect_skipped ==
    /\ At("redirect")
    /\ sess' = [Did("yield", "yield") EXCEPT ![cur].started = TRUE]
    /\ UNCHANGED <<now, umask, groupExists, dir, files, fobj, sys_stdout,
                   sys_stderr, handlers, console, conFault, stack, tee_in,
                   warned, exit_kind, nwrites, nticks, nfaults>>
    /\ UNCHANGED runvars
    /\ UNCHANGED cfgvars

\* One turn of: for handler in logging.root.handlers[:], and the yield after
\* the last.
Redirect ==
    /\ At("redirect")
    /\ LET i == sess[cur].i
       IN  IF i > Len(handlers)
           THEN /\ sess' = [Did("yield", "yield") EXCEPT ![cur].started = TRUE]
                /\ handlers' = handlers
           ELSE IF handlers[i].kind = "NullHandler"
           THEN /\ sess' = [sess EXCEPT ![cur].i = i + 1]
                /\ handlers' = handlers
           ELSE IF handlers[i].kind = "StreamHandler"
           THEN /\ sess' = [sess EXCEPT
                              ![cur].i = i + 1,
                              ![cur].ohs = Append(@, [h |-> i, stream |-> HandlerStream(i)]),
                              ![cur].trace = Append(@, "redirect")]
                /\ handlers' = [handlers EXCEPT ![i].stream = sys_stderr]
           ELSE /\ sess' = [Fails("redirect", "AttributeError", "restore")
                              EXCEPT ![cur].ohs =
                                Append(@, [h |-> i, stream |-> HandlerStream(i)])]
                /\ handlers' = handlers
    /\ UNCHANGED <<now, umask, groupExists, dir, files, fobj, sys_stdout,
                   sys_stderr, console, conFault, stack, tee_in, warned,
                   exit_kind, nwrites, nticks, nfaults>>
    /\ UNCHANGED runvars
    /\ UNCHANGED cfgvars

(***************************************************************************)
(* The body of the with statement: what runs while the generator is        *)
(* suspended at its yield.                                                 *)
(***************************************************************************)
SysStream(which) == IF which = "out" THEN sys_stdout ELSE sys_stderr

\* The body did op.
BodyDid(op) == [sess EXCEPT ![cur].trace = Append(@, op)]
\* The body raises e at op: the generator is resumed with it and runs its
\* finally block.
BodyFails(op, e) ==
    [sess EXCEPT ![cur].pc = "restore", ![cur].exc = e,
                 ![cur].trace = Append(@, op \o "!")]

\* print(...) / sys.stdout.write(...) / sys.stderr.write(...) in the body
Write(which) ==
    /\ InBody
    /\ MayTake
    /\ nwrites < MaxWrites
    /\ nwrites' = nwrites + 1
    /\ LET r == StreamWrite(SysStream(which), Item("data", nwrites + 1, 0, 0), World)
       IN  /\ SetWorld(r.w)
           /\ sess' = IF r.exc # "none" THEN BodyFails("write", r.exc)
                      ELSE BodyDid("write")
    /\ UNCHANGED <<now, umask, groupExists, dir, sys_stdout, sys_stderr,
                   handlers, conFault, stack, warned, exit_kind, nticks, nfaults>>
    /\ UNCHANGED runvars
    /\ UNCHANGED cfgvars

\* sys.stdout.flush() / sys.stderr.flush() in the body
Flush(which) ==
    /\ InBody
    /\ MayTake
    /\ nwrites < MaxWrites
    /\ nwrites' = nwrites + 1
    /\ LET r == StreamFlush(SysStream(which), World)
       IN  /\ SetWorld(r.w)
           /\ sess' = IF r.exc # "none" THEN BodyFails("flush", r.exc)
                      ELSE BodyDid("flush")
    /\ UNCHANGED <<now, umask, groupExists, dir, sys_stdout, sys_stderr,
                   handlers, conFault, stack, warned, exit_kind, nticks, nfaults>>
    /\ UNCHANGED runvars
    /\ UNCHANGED cfgvars

\* logger.info(...) / logger.error(...) in the body
Emit ==
    /\ InBody
    /\ MayTake
    /\ nwrites < MaxWrites
    /\ nwrites' = nwrites + 1
    /\ SetWorld(LoggerCall(1, "log", nwrites + 1, 0, World))
    /\ sess' = BodyDid("emit")
    /\ UNCHANGED <<now, umask, groupExists, dir, sys_stdout, sys_stderr,
                   handlers, conFault, stack, warned, exit_kind, nticks, nfaults>>
    /\ UNCHANGED runvars
    /\ UNCHANGED cfgvars

\* The body ends normally.
BodyReturn ==
    /\ InBody
    /\ sess' = [sess EXCEPT ![cur].pc = "restore"]
    /\ UNCHANGED <<now, umask, groupExists, dir, files, fobj, sys_stdout,
                   sys_stderr, handlers, console, conFault, stack, tee_in,
                   warned, exit_kind, nwrites, nticks, nfaults>>
    /\ UNCHANGED runvars
    /\ UNCHANGED cfgvars

\* The body raises.
BodyRaise ==
    /\ InBody
    /\ sess' = BodyFails("body", "SNACError")
    /\ UNCHANGED <<now, umask, groupExists, dir, files, fobj, sys_stdout,
                   sys_stderr, handlers, console, conFault, stack, tee_in,
                   warned, exit_kind, nwrites, nticks, nfaults>>
    /\ UNCHANGED runvars
    /\ UNCHANGED cfgvars

(***************************************************************************)
(* logging_context, the finally block                                      *)
(***************************************************************************)
\* A finally block that leaves the handlers as the session set them: the
\* properties of the restoration must tell it from the real loop.
RestoredHandlers_skipped(ohs) == handlers

\* for handler, original_stream in original_handler_streams: the whole loop.
\* Setting the stream of a _StderrHandler raises, which is passed over.
RestoredHandlers(ohs) ==
    [h \in 1..Len(handlers) |->
        IF handlers[h].kind = "StreamHandler" /\ \E j \in 1..Len(ohs) : ohs[j].h = h
        THEN [handlers[h] EXCEPT !.stream =
                 ohs[CHOOSE j \in 1..Len(ohs) : ohs[j].h = h].stream]
        ELSE handlers[h]]

\* A finally block that restores sys.stdout and sys.stderr only when the
\* session had reached its body: the properties of a failed entry must tell
\* it from the real one.
Restore_started ==
    /\ At("restore")
    /\ handlers' = RestoredHandlers(sess[cur].ohs)
    /\ sys_stdout' = IF sess[cur].started THEN sess[cur].original_stdout ELSE sys_stdout
    /\ sys_stderr' = IF sess[cur].started THEN sess[cur].original_stderr ELSE sys_stderr
    /\ sess' = [sess EXCEPT ![cur].pc = "footer",
                            ![cur].trace = @ \o <<"restore_handlers", "restore_std">>]
    /\ UNCHANGED <<now, umask, groupExists, dir, files, fobj, console, conFault,
                   stack, tee_in, warned, exit_kind, nwrites, nticks, nfaults>>
    /\ UNCHANGED runvars
    /\ UNCHANGED cfgvars

\* The start of the finally block: the loop that restores the handlers, then
\* sys.stdout = original_stdout; sys.stderr = original_stderr.  When the
\* frame failed before it saved them, the originals are what sys.stdout and
\* sys.stderr still name.
Restore ==
    /\ At("restore")
    /\ handlers' = RestoredHandlers(sess[cur].ohs)
    /\ sys_stdout' = sess[cur].original_stdout
    /\ sys_stderr' = sess[cur].original_stderr
    /\ sess' = [sess EXCEPT ![cur].pc = "footer",
                            ![cur].trace = @ \o <<"restore_handlers", "restore_std">>]
    /\ UNCHANGED <<now, umask, groupExists, dir, files, fobj, console, conFault,
                   stack, tee_in, warned, exit_kind, nwrites, nticks, nfaults>>
    /\ UNCHANGED runvars
    /\ UNCHANGED cfgvars

\* A finally block that lets the failure of the footer out to the caller:
\* the properties of the teardown must tell it from the real one.
WriteFooter_raising ==
    /\ At("footer")
    /\ IF ~sess[cur].log_file
       THEN /\ sess' = [sess EXCEPT ![cur].pc = "done"]
            /\ UNCHANGED <<console, files, fobj, tee_in>>
       ELSE LET r == WriteAndFlush(cur, Footer(cur), World)
            IN  /\ SetWorld(r.w)
                /\ sess' = IF r.exc # "none" THEN Fails("footer", r.exc, "done")
                           ELSE Did("footer", "close")
    /\ UNCHANGED <<now, umask, groupExists, dir, sys_stdout, sys_stderr,
                   handlers, conFault, stack, warned, exit_kind, nwrites,
                   nticks, nfaults>>
    /\ UNCHANGED runvars
    /\ UNCHANGED cfgvars

\* A finally block that closes the log file without writing the footer: the
\* properties of the layout of the log must tell it from the real one.
WriteFooter_skipped ==
    /\ At("footer")
    /\ sess' = IF sess[cur].log_file THEN Did("footer", "close")
               ELSE [sess EXCEPT ![cur].pc = "done"]
    /\ UNCHANGED <<now, umask, groupExists, dir, files, fobj, sys_stdout,
                   sys_stderr, handlers, console, conFault, stack, tee_in,
                   warned, exit_kind, nwrites, nticks, nfaults>>
    /\ UNCHANGED runvars
    /\ UNCHANGED cfgvars

\* if log_file is not None: try: _write_log_footer(log_file, 0)
WriteFooter ==
    /\ At("footer")
    /\ IF ~sess[cur].log_file
       THEN /\ sess' = [sess EXCEPT ![cur].pc = "done"]
            /\ UNCHANGED <<console, files, fobj, tee_in>>
       ELSE LET r == WriteAndFlush(cur, Footer(cur), World)
            IN  /\ SetWorld(r.w)
                /\ sess' = IF r.exc # "none"
                           THEN [sess EXCEPT ![cur].pc = "done",
                                             ![cur].trace = Append(@, "footer!")]
                           ELSE Did("footer", "close")
    /\ UNCHANGED <<now, umask, groupExists, dir, sys_stdout, sys_stderr,
                   handlers, conFault, stack, warned, exit_kind, nwrites,
                   nticks, nfaults>>
    /\ UNCHANGED runvars
    /\ UNCHANGED cfgvars

\* log_file.close(): flushes what is buffered and closes the descriptor; the
\* descriptor is closed also when that flush raises.
CloseLog ==
    /\ At("close")
    /\ LET r == FileFlush(cur, World)
       IN  /\ console' = r.w.console
           /\ tee_in' = r.w.tee_in
           /\ files' = r.w.files
           /\ fobj' = [r.w.fobj EXCEPT ![cur].state = "closed", ![cur].buf = <<>>]
           /\ sess' = IF r.exc # "none"
                      THEN [sess EXCEPT ![cur].pc = "done",
                                        ![cur].trace = Append(@, "close!")]
                      ELSE Did("close", "print")
    /\ UNCHANGED <<now, umask, groupExists, dir, sys_stdout, sys_stderr,
                   handlers, conFault, stack, warned, exit_kind, nwrites,
                   nticks, nfaults>>
    /\ UNCHANGED runvars
    /\ UNCHANGED cfgvars

\* print(f"\nLog saved to: {log_path}"); except Exception: pass
PrintSaved ==
    /\ At("print")
    /\ LET r == StreamWrite(sys_stdout, Saved(cur), World)
       IN  /\ SetWorld(r.w)
           /\ sess' = IF r.exc # "none"
                      THEN [sess EXCEPT ![cur].pc = "done",
                                        ![cur].trace = Append(@, "print!")]
                      ELSE Did("print", "done")
    /\ UNCHANGED <<now, umask, groupExists, dir, sys_stdout, sys_stderr,
                   handlers, conFault, stack, warned, exit_kind, nwrites,
                   nticks, nfaults>>
    /\ UNCHANGED runvars
    /\ UNCHANGED cfgvars

\* The error kind the driver reports when session s, the outermost, ends:
\* bad-environment when permission was denied, already-exists when the log
\* filename was in use, the kind the body's own error carries, and the
\* generic error otherwise.
ExitKind(s) ==
    CASE sess[s].exc = "none" -> "ok"
      [] sess[s].exc = "PermissionError" -> "bad-environment"
      [] sess[s].existed -> "already-exists"
      [] sess[s].exc = "SNACError" -> "snac"
      [] OTHER -> "generic"

\* A generator that swallows what its body raised (an except clause around
\* the yield): the properties of the exception must tell it from the real one.
Leave_swallowing ==
    /\ At("done")
    /\ stack' = SubSeq(stack, 1, Len(stack) - 1)
    /\ sess' = [sess EXCEPT ![cur].pc = "left"]
    /\ exit_kind' = IF Len(stack) > 1 THEN exit_kind
                    ELSE IF sess[cur].started THEN "ok" ELSE ExitKind(cur)
    /\ UNCHANGED <<now, umask, groupExists, dir, files, fobj, sys_stdout,
                   sys_stderr, handlers, console, conFault, tee_in, warned,
                   nwrites, nticks, nfaults>>
    /\ UNCHANGED runvars
    /\ UNCHANGED cfgvars

\* The generator is exhausted: the with statement ends, and the exception,
\* if there is one, reaches the caller: the body of the enclosing session,
\* or the driver.
Leave ==
    /\ At("done")
    /\ stack' = SubSeq(stack, 1, Len(stack) - 1)
    /\ LET e == sess[cur].exc
       IN  IF Len(stack) > 1
           THEN /\ sess' = IF e = "none"
                           THEN [sess EXCEPT ![cur].pc = "left"]
                           ELSE [sess EXCEPT ![cur].pc = "left",
                                             ![stack[Len(stack) - 1]].pc = "restore",
                                             ![stack[Len(stack) - 1]].exc = e]
                /\ exit_kind' = exit_kind
           ELSE /\ sess' = [sess EXCEPT ![cur].pc = "left"]
                /\ exit_kind' = ExitKind(cur)
    /\ UNCHANGED <<now, umask, groupExists, dir, files, fobj, sys_stdout,
                   sys_stderr, handlers, console, conFault, tee_in, warned,
                   nwrites, nticks, nfaults>>
    /\ UNCHANGED runvars
    /\ UNCHANGED cfgvars

(***************************************************************************)
(* The environment                                                         *)
(***************************************************************************)

\* The clock advances.  Only _generate_log_filename reads the clock, so it
\* is advanced where it is about to be read.
Tick ==
    /\ At("name")
    /\ MayTake
    /\ nticks < MaxTicks
    /\ nticks' = nticks + 1
    /\ \E d \in {1, TicksPerSecond} : now' = now + d
    /\ UNCHANGED <<umask, groupExists, dir, files, fobj, sys_stdout, sys_stderr,
                   handlers, console, conFault, sess, stack, tee_in, warned,
                   exit_kind, nwrites, nfaults>>
    /\ UNCHANGED runvars
    /\ UNCHANGED cfgvars

\* The log file of session s starts or stops failing (a full disk, an I/O
\* error, text its encoding refuses).
LogFault ==
    /\ stack # <<>>
    /\ sess[cur].pc \in {"header", "yield", "footer", "close"}
    /\ MayTake
    /\ nfaults < MaxFaults
    /\ nfaults' = nfaults + 1
    /\ \E s \in 1..Len(fobj) : \E m \in {"ok", "wfail", "ffail"} :
         /\ fobj[s].state = "open"
         /\ fobj[s].fault # m
         /\ fobj' = [fobj EXCEPT ![s].fault = m]
    /\ UNCHANGED <<now, umask, groupExists, dir, files, sys_stdout, sys_stderr,
                   handlers, console, conFault, sess, stack, tee_in, warned,
                   exit_kind, nwrites, nticks>>
    /\ UNCHANGED runvars
    /\ UNCHANGED cfgvars

\* logging.root.addHandler(h): a handler made while no session runs its own
\* code.  A StreamHandler made without a stream takes sys.stderr as it is
\* then.
AddHandler(kind) ==
    /\ Idle
    /\ MayTake
    /\ Len(handlers) < MaxHandlers
    /\ handlers' = Append(handlers,
          Handler(kind, IF kind = "StreamHandler" THEN sys_stderr ELSE NoStream))
    /\ UNCHANGED <<now, umask, groupExists, dir, files, fobj, sys_stdout,
                   sys_stderr, console, conFault, sess, stack, tee_in, warned,
                   exit_kind, nwrites, nticks, nfaults>>
    /\ UNCHANGED runvars
    /\ UNCHANGED cfgvars

\* The terminal starts or stops failing (a closed pipe).
ConsoleFault ==
    /\ stack # <<>>
    /\ sess[cur].pc \in {"yield", "print"}
    /\ MayTake
    /\ nfaults < MaxFaults
    /\ nfaults' = nfaults + 1
    /\ conFault' = ~conFault
    /\ UNCHANGED <<now, umask, groupExists, dir, files, fobj, sys_stdout,
                   sys_stderr, handlers, console, sess, stack, tee_in, warned,
                   exit_kind, nwrites, nticks>>
    /\ UNCHANGED runvars
    /\ UNCHANGED cfgvars

(***************************************************************************)
(* run_with_logging: the subprocess hands its output over line by line,    *)
(* closes its pipe and exits with a code of its own choosing.              *)
(***************************************************************************)
\* The argument vectors a caller passes, and the codes a subprocess ends
\* with (a negative code is the signal that killed it).
ArgVectors == {<<"opkg", "install">>, <<"true">>}
ExitCodes == {0, 1, -9}

\* The exception leaves run_with_logging: into the body of the session
\* the call was made in, if there is one.
RunRaises(e) ==
    IF stack = <<>> THEN sess ELSE BodyFails("run", e)
RunReturns ==
    IF stack = <<>> THEN sess ELSE BodyDid("run")

\* check = kwargs.pop("check", True); process = subprocess.Popen(args, ...);
\* output_lines = []
RunStart(args, check) ==
    /\ Idle
    /\ MayTake
    /\ nruns < MaxRuns
    /\ nruns' = nruns + 1
    /\ \E r \in Outcomes({"FileNotFoundError"}) :
         /\ nfaults' = Charged(r)
         /\ IF r = "ok"
            THEN /\ run' = [NoRun EXCEPT !.pc = "read", !.args = args, !.check = check]
                 /\ sess' = sess
            ELSE /\ run' = [NoRun EXCEPT !.pc = "raised", !.args = args,
                                         !.check = check, !.error = Error(r, 0, <<>>)]
                 /\ sess' = RunRaises(r)
    /\ UNCHANGED <<now, umask, groupExists, dir, files, fobj, sys_stdout,
                   sys_stderr, handlers, console, conFault, stack, tee_in,
                   warned, exit_kind, nwrites, nticks>>
    /\ UNCHANGED cfgvars

\* for line in process.stdout: the next line of the subprocess, or the end
\* of its output, when the subprocess is gone with the code it chose
RunRead ==
    /\ run.pc = "read"
    /\ \/ /\ Len(run.read) < MaxLines
          /\ LET line == Item("line", Len(run.read) + 1, nruns, 0)
             IN  run' = [run EXCEPT !.pc = "echo", !.line = line.n,
                                    !.read = Append(@, line)]
       \/ \E code \in ExitCodes :
             run' = [run EXCEPT !.pc = "wait", !.exit = code]
    /\ UNCHANGED <<now, umask, groupExists, dir, files, fobj, sys_stdout,
                   sys_stderr, handlers, console, conFault, sess, stack, tee_in,
                   warned, exit_kind, nwrites, nticks, nfaults, nruns>>
    /\ UNCHANGED cfgvars

\* A loop that keeps the lines for the result and shows none: the
\* properties of the call must tell it from the real one.
RunEcho_captured ==
    /\ run.pc = "echo"
    /\ run' = [run EXCEPT !.pc = "read", !.output_lines = Append(@, run.read[run.line])]
    /\ UNCHANGED <<now, umask, groupExists, dir, files, fobj, sys_stdout,
                   sys_stderr, handlers, console, conFault, sess, stack, tee_in,
                   warned, exit_kind, nwrites, nticks, nfaults, nruns>>
    /\ UNCHANGED cfgvars

\* A loop that holds each line back until the next one is read (a buffer
\* that nothing flushes): the properties of a failed command must tell it
\* from the real one.
RunEcho_lagging ==
    /\ run.pc = "echo"
    /\ LET line == run.read[run.line]
           r2 == IF run.line = 1 THEN Ok(World)
                 ELSE StreamWrite(sys_stdout, run.read[run.line - 1], World)
       IN  /\ SetWorld(r2.w)
           /\ IF r2.exc # "none"
              THEN /\ run' = [run EXCEPT !.pc = "raised", !.error = Error(r2.exc, 0, <<>>)]
                   /\ sess' = RunRaises(r2.exc)
              ELSE /\ run' = [run EXCEPT !.pc = "read", !.output_lines = Append(@, line)]
                   /\ sess' = sess
    /\ UNCHANGED <<now, umask, groupExists, dir, sys_stdout, sys_stderr,
                   handlers, conFault, stack, warned, exit_kind, nwrites,
                   nticks, nfaults, nruns>>
    /\ UNCHANGED cfgvars

\* sys.stdout.write(line); sys.stdout.flush(); output_lines.append(line)
RunEcho ==
    /\ run.pc = "echo"
    /\ LET line == run.read[run.line]
           r1 == StreamWrite(sys_stdout, line, World)
           r2 == IF r1.exc # "none" THEN r1 ELSE StreamFlush(sys_stdout, r1.w)
       IN  /\ SetWorld(r2.w)
           /\ IF r2.exc # "none"
              THEN /\ run' = [run EXCEPT !.pc = "raised", !.error = Error(r2.exc, 0, <<>>)]
                   /\ sess' = RunRaises(r2.exc)
              ELSE /\ run' = [run EXCEPT !.pc = "read", !.output_lines = Append(@, line)]
                   /\ sess' = sess
    /\ UNCHANGED <<now, umask, groupExists, dir, sys_stdout, sys_stderr,
                   handlers, conFault, stack, warned, exit_kind, nwrites,
                   nticks, nfaults, nruns>>
    /\ UNCHANGED cfgvars

\* A wait that raises on every code but zero, whatever the caller asked
\* for: the properties of the call must tell it from the real one.
RunWait_strict ==
    /\ run.pc = "wait"
    /\ LET returncode == run.exit
       IN  IF returncode # 0
           THEN /\ run' = [run EXCEPT !.pc = "raised", !.returncode = returncode,
                              !.error = Error("CalledProcessError", returncode, run.args)]
                /\ sess' = RunRaises("CalledProcessError")
           ELSE /\ run' = [run EXCEPT !.pc = "returned", !.returncode = returncode,
                              !.result = CompletedProcess(run.args, returncode,
                                                          run.output_lines)]
                /\ sess' = RunReturns
    /\ UNCHANGED <<now, umask, groupExists, dir, files, fobj, sys_stdout,
                   sys_stderr, handlers, console, conFault, stack, tee_in,
                   warned, exit_kind, nwrites, nticks, nfaults, nruns>>
    /\ UNCHANGED cfgvars

\* returncode = process.wait(); the check of the code; the result
RunWait ==
    /\ run.pc = "wait"
    /\ LET returncode == run.exit
       IN  IF run.check /\ returncode # 0
           THEN /\ run' = [run EXCEPT !.pc = "raised", !.returncode = returncode,
                              !.error = Error("CalledProcessError", returncode, run.args)]
                /\ sess' = RunRaises("CalledProcessError")
           ELSE /\ run' = [run EXCEPT !.pc = "returned", !.returncode = returncode,
                              !.result = CompletedProcess(run.args, returncode,
                                                          run.output_lines)]
                /\ sess' = RunReturns
    /\ UNCHANGED <<now, umask, groupExists, dir, files, fobj, sys_stdout,
                   sys_stderr, handlers, console, conFault, stack, tee_in,
                   warned, exit_kind, nwrites, nticks, nfaults, nruns>>
    /\ UNCHANGED cfgvars

Next ==
    \/ \E c \in Commands : Enter(c)
    \/ Mkdir
    \/ ChmodDir
    \/ ChownDir
    \/ GenName
    \/ OpenLog
    \/ Fchown
    \/ WriteHeader
    \/ InstallTees
    \/ Redirect
    \/ \E w \in {"out", "err"} : Write(w)
    \/ \E w \in {"out", "err"} : Flush(w)
    \/ Emit
    \/ BodyReturn
    \/ BodyRaise
    \/ Restore
    \/ WriteFooter
    \/ CloseLog
    \/ PrintSaved
    \/ Leave
    \/ \E k \in HandlerKinds : AddHandler(k)
    \/ Tick
    \/ LogFault
    \/ ConsoleFault

Spec == Init /\ [][Next]_vars

\* A process whose sessions do their work through run_with_logging.
NextRun ==
    \/ \E c \in Commands : Enter(c)
    \/ Mkdir
    \/ ChmodDir
    \/ ChownDir
    \/ GenName
    \/ OpenLog
    \/ Fchown
    \/ WriteHeader
    \/ InstallTees
    \/ Redirect
    \/ \E a \in ArgVectors : \E ch \in BOOLEAN : RunStart(a, ch)
    \/ RunRead
    \/ RunEcho
    \/ RunWait
    \/ BodyReturn
    \/ Restore
    \/ WriteFooter
    \/ CloseLog
    \/ PrintSaved
    \/ Leave
    \/ LogFault
    \/ ConsoleFault

SpecRun == Init /\ [][NextRun]_vars

\* A process that calls the Config Modules, on a host that changes between
\* the calls.  The package helper either holds back in a dry run or does
\* not: its code is not part of the tool's own.
InitCfg ==
    /\ now = StartSecond * TicksPerSecond
    /\ umask = {"gw", "ow"}
    /\ groupExists = TRUE
    /\ dir = [kind |-> "absent", mode |-> {}, group |-> "none"]
    /\ files = NoFiles
    /\ fobj = <<>>
    /\ sys_stdout = Con("out")
    /\ sys_stderr = Con("err")
    /\ handlers = InitialHandlers
    /\ console = <<>>
    /\ conFault = FALSE
    /\ sess = <<>>
    /\ stack = <<>>
    /\ tee_in = <<>>
    /\ warned = <<>>
    /\ exit_kind = "none"
    /\ nwrites = 0
    /\ nticks = 0
    /\ nfaults = 0
    /\ run = NoRun
    /\ nruns = 0
    /\ host \in {[Image EXCEPT !.helper_dry = b] : b \in BOOLEAN}
    /\ call = NoCall
    /\ ncalls = 0
    /\ ndrifts = 0

NextCfg ==
    \/ \E m \in Modules : \E dry \in BOOLEAN : Configure(m, dry)
    \/ \E m \in Modules : \E dry \in BOOLEAN : Verify(m, dry)
    \/ Drift

SpecCfg == InitCfg /\ [][NextCfg]_vars

(***************************************************************************)
(* Properties                                                              *)
(***************************************************************************)
Sessions == 1..Len(sess)
Range(q) == {q[i] : i \in 1..Len(q)}
\* The session has ended: its finally block is through.
Ended(s) == sess[s].pc \in {"done", "left"}
\* The session ended and is the last thing the process did with its
\* streams: it is the innermost frame, about to leave.
JustEnded(s) == stack # <<>> /\ cur = s /\ sess[s].pc = "done"

\* C1: after a session ends, whether its body returned or raised, sys.stdout,
\* sys.stderr and the stream of every handler of the root logger are the
\* objects they were just before the session began.
C1_StreamsRestored ==
    \A s \in Sessions :
        JustEnded(s) /\ sess[s].started =>
            /\ sys_stdout = sess[s].pre_stdout
            /\ sys_stderr = sess[s].pre_stderr
            /\ \A h \in DOMAIN sess[s].pre_handlers :
                   HandlerStream(h) = sess[s].pre_handlers[h]

\* A session that redirected a handler ended because its body raised.
C1_Witness ==
    \E s \in Sessions :
        /\ JustEnded(s) /\ sess[s].started
        /\ sess[s].exc = "SNACError"
        /\ sess[s].ohs # <<>>
        /\ sys_stderr = sess[s].pre_stderr

\* The tees of session s were made.
Teed(s) == "tee" \in Range(sess[s].trace)
\* What the log file of session s holds, on disk and in its buffer.
LogData(s) ==
    IF sess[s].log_file THEN files[sess[s].log_path].content \o fobj[s].buf ELSE <<>>
\* What is not header or footer.
IsOutput(x) == x.k \notin {"hdr", "ftr"}
\* The data of the calls of q, in order.
ItemsOf(q) == [i \in 1..Len(q) |-> q[i].it]
\* The calls of write() on the tees of s that found the console working.
ConCalls(s) == SelectSeq(tee_in[s], LAMBDA c : c.con)
\* What the original streams of the tees of session s received: what the
\* terminal took or, under an enclosing session, what its tees passed on.
Received(s) ==
    IF sess[s].original_stdout.k = "tee"
    THEN ItemsOf(ConCalls(sess[s].original_stdout.s))
    ELSE [i \in 1..Len(console) |-> console[i].it]
\* Of those, the calls whose data the log file took.
LogCalls(s) == SelectSeq(ConCalls(s), LAMBDA c : c.log \in {"ok", "ffail"})
\* Of those, the calls on which the log file failed.
FailedCalls(s) == SelectSeq(ConCalls(s), LAMBDA c : c.log # "ok")

\* C2: of the writes made through the two tees of a session, the original
\* streams receive the data of every write and the log file the same data, in
\* the order the writes were issued; a write on which only the log file
\* fails still reaches the original stream and does not raise.
C2_TeeSameData ==
    \A s \in Sessions :
        Teed(s) =>
            /\ SelectSeq(Received(s), LAMBDA x : x \in Range(ItemsOf(tee_in[s])))
                  = ItemsOf(ConCalls(s))
            /\ fobj[s].state = "open" =>
                  SelectSeq(LogData(s), IsOutput) = ItemsOf(LogCalls(s))
            /\ "write!" \in Range(sess[s].trace) => sess[s].exc = "BrokenPipeError"

\* A session wrote through both tees; the log file took one write and
\* failed on another.
C2_Witness ==
    \E s \in Sessions :
        /\ Teed(s) /\ fobj[s].state = "open"
        /\ Len(LogCalls(s)) >= 1
        /\ Len(ConCalls(s)) > Len(LogCalls(s))
        /\ \E i, j \in 1..Len(console) : console[i].w = "out" /\ console[j].w = "err"

\* What the original stream is to receive for the calls q on a tee of s: the
\* data of each call, followed by one warning when the log file failed on it.
RECURSIVE Expected(_, _)
Expected(q, s) ==
    IF q = <<>> THEN <<>>
    ELSE (IF Head(q).log # "ok" THEN <<Head(q).it, TeeWarning(s)>> ELSE <<Head(q).it>>)
         \o Expected(Tail(q), s)

\* The body of s raised in write() or flush() of its tee for another reason
\* than the console failing.
LogFailureSurfaced(s) ==
    /\ \E op \in {"write!", "flush!"} : op \in Range(sess[s].trace)
    /\ sess[s].exc # "BrokenPipeError"

\* The body of session s is flushing its tee in this step.
FlushStep(s) ==
    /\ stack # <<>> /\ cur = s /\ sess[s].pc = "yield"
    /\ \E op \in {"flush", "flush!"} : sess'[s].trace = Append(sess[s].trace, op)

\* C3: a failure of the log file under a tee never reaches the caller.  When
\* the log file fails on a write, the original stream has the data and after
\* it one warning for that write, and write() returns; flush() flushes the
\* original stream and the log file, and returns also when the log file
\* cannot be flushed.
C3_LogFailureContained ==
    /\ [](\A s \in Sessions :
            Teed(s) =>
              /\ SelectSeq(Received(s),
                     LAMBDA x : x = TeeWarning(s) \/ x \in Range(ItemsOf(tee_in[s])))
                    = Expected(ConCalls(s), s)
              /\ ~LogFailureSurfaced(s))
    /\ [][\A s \in Sessions :
            FlushStep(s) /\ ~conFault =>
              /\ sess'[s].pc = "yield"
              /\ IF LogState(s, World) \in {"ok", "wfail"}
                 THEN /\ fobj'[s].buf = <<>>
                      /\ files'[sess[s].log_path].content =
                            files[sess[s].log_path].content \o fobj[s].buf
                 ELSE fobj' = fobj /\ files' = files]_vars

\* The log file failed on a write of the body, which went on, and the body
\* then flushed the tee over the failing log file and went on.
C3_Witness ==
    \E s \in Sessions :
        /\ At("yield") /\ cur = s
        /\ Len(FailedCalls(s)) >= 1
        /\ TeeWarning(s) \in Range(Received(s))
        /\ fobj[s].fault = "ffail"
        /\ sess[s].trace[Len(sess[s].trace)] = "flush"

\* q starts with p.
IsPrefix(p, q) == Len(p) <= Len(q) /\ SubSeq(q, 1, Len(p)) = p

\* C4: a session whose log filename is that of a file already there fails
\* with FileExistsError, the already-exists error; the file is not emptied,
\* and the session puts no header, output or footer into it.
C4_ExistingLogKept ==
    /\ [](\A s \in Sessions :
            sess[s].existed =>
              /\ sess[s].exc = "FileExistsError"
              /\ ~sess[s].started /\ ~sess[s].log_file
              /\ tee_in[s] = <<>>
              /\ files[sess[s].log_path].creator # s
              /\ \A x \in Range(files[sess[s].log_path].content) :
                     x \notin {Header(s), Footer(s)})
    /\ [][/\ \A p \in DOMAIN files :
               /\ p \in DOMAIN files'
               /\ files'[p].creator = files[p].creator
               /\ IsPrefix(files[p].content, files'[p].content)
          /\ \A s \in Sessions :
               stack # <<>> /\ cur = s /\ sess'[s].existed => files' = files]_vars

\* A session found the file of an earlier session of the same command and
\* second under its name, and ended.
C4_Witness ==
    \E s \in Sessions :
        /\ sess[s].existed /\ Ended(s)
        /\ files[sess[s].log_path].content # <<>>
        /\ \E o \in Sessions : o # s /\ sess[o].log_path = sess[s].log_path
                                  /\ sess[o].pc = "left"

\* Session s failed to make the log directory or the log file.
CreationFailed(s) ==
    \E op \in {"mkdir!", "chmod_dir!", "chown_dir!", "open!"} : op \in Range(sess[s].trace)
\* Session s was not started inside another, and exit_kind is the kind the
\* driver reported for it.
Reported(s) ==
    /\ stack = <<>> /\ s = Len(sess) /\ sess[s].pc = "left"
    /\ sess[s].pre_stdout.k = "con"

C6_LogFileAsClaimed ==
    \A s \in Sessions :
        sess[s].log_file =>
            /\ sess[s].log_path \in DOMAIN files
            /\ files[sess[s].log_path].mode = LOG_PERMISSIONS
            /\ Ended(s) => files[sess[s].log_path].content # <<>>
            /\ groupExists /\ "fchown" \in Range(sess[s].trace) =>
                  files[sess[s].log_path].group = LOG_GROUP

\* Under the umask 077 a session that met no failure has ended, and its log
\* file, with header and footer, has the mode 0600.
C6_Witness ==
    \E s \in Sessions :
        /\ sess[s].log_file /\ Ended(s) /\ sess[s].started
        /\ nfaults = 0
        /\ umask = {"gr", "gw", "gx", "or", "ow", "ox"}
        /\ files[sess[s].log_path].mode = {"ur", "uw"}
        /\ Footer(s) \in Range(files[sess[s].log_path].content)

\* _create_log_directory has returned in session s.
DirectoryMade(s) == \E op \in {"chown_dir", "warn_dir"} : op \in Range(sess[s].trace)

\* C7: once _create_log_directory has returned in a session, the log
\* directory is a directory of mode 0750 and, when the host has the group
\* adm, of that group, whether it was made by the session or was there
\* before with another mode and group.
C7_DirectoryModeAndGroup ==
    \A s \in Sessions :
        DirectoryMade(s) =>
            /\ dir.kind = "dir"
            /\ dir.mode = DIR_PERMISSIONS
            /\ groupExists => dir.group = LOG_GROUP

\* A session became active over a directory that was there with every
\* permission bit and the group users, on a host with the group adm and
\* the umask 077.
C7_Witness ==
    \E s \in Sessions :
        /\ sess[s].started /\ groupExists
        /\ umask = {"gr", "gw", "gx", "or", "ow", "ox"}
        /\ sess[s].pre_dir.kind = "dir"
        /\ sess[s].pre_dir.mode # DIR_PERMISSIONS
        /\ sess[s].pre_dir.group # LOG_GROUP
        /\ dir.mode = DIR_PERMISSIONS /\ dir.group = LOG_GROUP

\* What a session has done when it has come to write its header: the
\* directory made, given its mode, given its group (or the group found
\* absent), the file created with its mode, given its group (or the group
\* found absent), and then the header written, or the write failing.
EntryOrders ==
    { <<"mkdir", "chmod_dir", c, "open", f, h>> :
        c \in {"chown_dir", "warn_dir"}, f \in {"fchown", "warn_file"},
        h \in {"header", "header!"} }
\* Session s has written, or tried to write, its header.
HeaderTried(s) == \E h \in {"header", "header!"} : h \in Range(sess[s].trace)

\* C8: in every session the mode and the group of the log directory and the
\* mode and the group of the log file are set before the first content, the
\* header or captured output, is written to the log file: when the header is
\* written, the directory was made, given its mode and its group, and the
\* file was created with its mode (what os.open gives it) and given its
\* group, in steps before that write, and once the file has content no step
\* changes the mode or the group of either.
C8_SettingsBeforeContent ==
    /\ [](\A s \in Sessions :
            ((\E x \in Range(LogData(s)) : x.k # "ftr") \/ HeaderTried(s)) =>
              /\ Len(sess[s].trace) >= 6
              /\ SubSeq(sess[s].trace, 1, 6) \in EntryOrders
              /\ dir.mode = DIR_PERMISSIONS
              /\ files[sess[s].log_path].mode = LOG_PERMISSIONS \ umask
              /\ groupExists => /\ dir.group = LOG_GROUP
                                /\ files[sess[s].log_path].group = LOG_GROUP)
    /\ [][\A s \in Sessions :
            LogData(s) # <<>> =>
              /\ dir' = dir
              /\ files'[sess[s].log_path].mode = files[sess[s].log_path].mode
              /\ files'[sess[s].log_path].group = files[sess[s].log_path].group]_vars

\* On a host with the group adm a session wrote its header and the output
\* of its body to its log file.
C8_Witness ==
    \E s \in Sessions :
        /\ groupExists /\ sess[s].started
        /\ Len(files[sess[s].log_path].content) >= 2
        /\ files[sess[s].log_path].group = LOG_GROUP

\* logger.warning was called in session s about the group of `what`.
Warned(s, what) == [s |-> s, what |-> what] \in Range(warned)

\* C9 as the specification words it: on a host without the group adm the
\* entry goes on past both group changes; the directory has the mode 0750
\* and the file the mode 0640, neither has its group changed, and a warning
\* is reported for each.
C9_DegradedAsClaimed ==
    ~groupExists =>
      \A s \in Sessions :
        /\ DirectoryMade(s) =>
             /\ "warn_dir" \in Range(sess[s].trace) /\ Warned(s, "dir")
             /\ dir.mode = DIR_PERMISSIONS
             /\ dir.group # LOG_GROUP
        /\ sess[s].log_file /\ sess[s].pc # "fchown" =>
             /\ "warn_file" \in Range(sess[s].trace) /\ Warned(s, "file")
             /\ files[sess[s].log_path].mode = LOG_PERMISSIONS
             /\ files[sess[s].log_path].group = ProcessGroup

\* On a host without the group adm and with the umask 077 a session became
\* active after both warnings, over a directory of mode 0750 and a log file
\* of mode 0600.
C9_Witness ==
    \E s \in Sessions :
        /\ ~groupExists /\ sess[s].started /\ sess[s].pc = "yield"
        /\ Warned(s, "dir") /\ Warned(s, "file")
        /\ dir.mode = DIR_PERMISSIONS
        /\ files[sess[s].log_path].mode = {"ur", "uw"}
        /\ files[sess[s].log_path].group = ProcessGroup

\* Session s has computed its log filename.
Named(s) == sess[s].log_path # NoPath

\* C10: two sessions for the same command whose timestamps are a second or
\* more apart get different log filenames, each the command followed by the
\* date and the time of day of its timestamp to the second; the file under
\* the name of the later is not the file the earlier created.
C10_DistinctFilenames ==
    \A s1, s2 \in Sessions :
        Named(s1) /\ Named(s2) =>
            /\ sess[s1].log_path = <<sess[s1].command, Stamp(sess[s1].t_name)>>
            /\ Len(sess[s1].log_path[2]) = 4
            /\ (/\ s1 # s2
                /\ sess[s1].command = sess[s2].command
                /\ sess[s2].t_name - sess[s1].t_name >= TicksPerSecond)
                 => /\ sess[s1].log_path # sess[s2].log_path
                    /\ sess[s2].log_path \in DOMAIN files =>
                          files[sess[s2].log_path].creator # s1

\* Two sessions for the same command, started a second apart, have each
\* created a log file.
C10_Witness ==
    \E s1, s2 \in Sessions :
        /\ s1 # s2
        /\ sess[s1].command = sess[s2].command
        /\ sess[s2].t_name - sess[s1].t_name >= TicksPerSecond
        /\ sess[s1].log_file /\ sess[s2].log_file
        /\ sess[s1].log_path \in DOMAIN files /\ sess[s2].log_path \in DOMAIN files

\* What the terminal received, without the stream it came by.
ConsoleItems == [i \in 1..Len(console) |-> console[i].it]

\* C11 as the specification words it: when a session that became active has
\* ended, and the print of the log location itself did not fail, the
\* terminal has received 'Log saved to: <path>' of that session, whether or
\* not the footer could be written.
C11_LocationReported ==
    \A s \in Sessions :
        sess[s].started /\ Ended(s) /\ "print!" \notin Range(sess[s].trace) =>
            Saved(s) \in Range(ConsoleItems)

\* A session that became active has ended over a working terminal; its
\* footer could not be written, and the terminal never received its log
\* location.
C11_Witness ==
    \E s \in Sessions :
        /\ sess[s].started /\ Ended(s)
        /\ "footer!" \in Range(sess[s].trace)
        /\ ~conFault
        /\ Saved(s) \notin Range(ConsoleItems)

\* Session s became active and its finally block wrote the footer and closed
\* the log file.
Completed(s) == sess[s].started /\ "close" \in Range(sess[s].trace)

\* C12: the log file of a session that became active and whose footer was
\* written and file closed holds the header, then the data of every write
\* made through the tees that the log file took, in the order of the writes,
\* then the footer, and nothing else, then and ever after.
C12_LogLayout ==
    \A s \in Sessions :
        Completed(s) =>
            files[sess[s].log_path].content =
                <<Header(s)>> \o ItemsOf(LogCalls(s)) \o <<Footer(s)>>

\* A completed session whose log holds, between header and footer, what was
\* written to stdout and what was written to stderr.
C12_Witness ==
    \E s \in Sessions :
        /\ Completed(s)
        /\ Len(files[sess[s].log_path].content) >= 4
        /\ \E i, j \in 1..Len(console) :
             /\ console[i].w = "out" /\ console[i].it.k = "data"
             /\ console[j].w = "err" /\ console[j].it.k = "data"

\* The StreamHandlers of the root logger that were there when session s
\* started, in order.
StreamHandlersAt(s) ==
    SelectSeq([h \in 1..Len(handlers) |-> h],
              LAMBDA h : h \in DOMAIN sess[s].pre_handlers
                         /\ handlers[h].kind # "NullHandler")
\* The body of session s is emitting a log record in this step.
EmitStep(s) ==
    /\ stack # <<>> /\ cur = s /\ sess[s].pc = "yield"
    /\ sess'[s].trace = Append(sess[s].trace, "emit")
\* Of what q gained over p, the log records of the handlers that were there
\* when session s started.
NewRecords(p, q, s) ==
    SelectSeq(SubSeq(q, Len(p) + 1, Len(q)),
              LAMBDA x : x.k = "log" /\ x.h \in DOMAIN sess[s].pre_handlers)

\* C13: while the body of a session runs, every StreamHandler of the root
\* logger that was there when the session started has the session's stderr
\* tee as its stream; a record the body emits is handed to the tees of the
\* session once for each such handler, in their order, and, when console and
\* log file work, is appended so to the log file, after what was written
\* before it.
C13_HandlersThroughTee ==
    /\ [](\A s \in Sessions :
            At("yield") /\ cur = s =>
              /\ sys_stderr = Tee(s, "err")
              /\ \A h \in DOMAIN sess[s].pre_handlers :
                    handlers[h].kind = "StreamHandler" =>
                        handlers[h].stream = Tee(s, "err"))
    /\ [][\A s \in Sessions :
            EmitStep(s) =>
              LET rec == [i \in 1..Len(StreamHandlersAt(s)) |->
                            Item("log", nwrites + 1, 0, StreamHandlersAt(s)[i])]
              IN  /\ NewRecords(ItemsOf(tee_in[s]), ItemsOf(tee_in'[s]), s) = rec
                  /\ (~conFault /\ LogState(s, World) = "ok") =>
                        /\ fobj'[s].buf = <<>>
                        /\ IsPrefix(LogData(s), files'[sess[s].log_path].content)
                        /\ NewRecords(LogData(s), files'[sess[s].log_path].content, s)
                             = rec]_vars

\* The body of a session wrote to stdout and then emitted a log record, and
\* the log file holds the record after the data.
C13_Witness ==
    \E s \in Sessions :
        /\ At("yield") /\ cur = s
        /\ \E h \in DOMAIN sess[s].pre_handlers : handlers[h].kind = "StreamHandler"
        /\ LET c == files[sess[s].log_path].content
           IN  \E i, j \in 1..Len(c) : i < j /\ c[i].k = "data" /\ c[j].k = "log"

\* The positions of the finally block.
TeardownPcs == {"restore", "footer", "close", "print"}

\* C14: the teardown of a session cannot fail.  From the start of the
\* finally block to its end the exception the session is to pass on, or that
\* it has none, does not change, whatever fails in between (a handler that
\* refuses its stream, the footer, the close, the print), and the block runs
\* to its end.
C14_TeardownSwallows ==
    [][\A s \in Sessions :
         sess[s].pc \in TeardownPcs =>
            /\ sess'[s].exc = sess[s].exc
            /\ sess'[s].pc \in TeardownPcs \cup {"done"}]_vars

\* A session whose body returned and whose footer could not be written has
\* left without an exception.
C14_Witness ==
    \E s \in Sessions :
        /\ sess[s].started /\ sess[s].pc = "left"
        /\ "footer!" \in Range(sess[s].trace)
        /\ sess[s].exc = "none"
        /\ exit_kind = "ok"

\* C15 as the specification words it: when a session has ended, on whatever
\* path, the log file object it opened is no longer open.
C15_HandleClosed ==
    \A s \in Sessions : Ended(s) => fobj[s].state # "open"

\* A session has ended after its footer could not be written, and its log
\* file object is still open.
C15_Witness ==
    \E s \in Sessions :
        /\ sess[s].pc = "left"
        /\ "footer!" \in Range(sess[s].trace)
        /\ fobj[s].state = "open"

\* Session s is ACTIVE: it has yielded to its body and has not begun its
\* finally block.
Active(s) == sess[s].pc = "yield"

\* C16 as the specification words it: at no time are two sessions ACTIVE.
C16_AtMostOneActive ==
    Cardinality({s \in Sessions : Active(s)}) <= 1

\* Two sessions are ACTIVE, the second started in the body of the first,
\* each with its own open log file and the tees of the second over those of
\* the first.
C16_Witness ==
    \E s1, s2 \in Sessions :
        /\ s1 # s2 /\ Active(s1) /\ Active(s2)
        /\ fobj[s1].state = "open" /\ fobj[s2].state = "open"
        /\ sess[s1].log_path # sess[s2].log_path
        /\ sys_stdout = Tee(s2, "out")
        /\ sess[s2].original_stdout = Tee(s1, "out")


(***************************************************************************)
(* run_with_logging                                                        *)
(***************************************************************************)
\* The last call raised subprocess.CalledProcessError.
NonzeroExitError == run.pc = "raised" /\ run.error.kind = "CalledProcessError"

\* C17: with check set (the default) run_with_logging raises the
\* nonzero-exit error, carrying the command and the exit code, exactly when
\* the subprocess ended with a code other than zero; with check unset the
\* exit code never makes it raise, and the result it returns carries the
\* exit code of the subprocess.
C17_CheckedExit ==
    /\ run.pc = "wait" => run.error = NoError /\ run.result = NoResult
    /\ NonzeroExitError =>
          /\ run.check /\ run.exit # 0
          /\ run.error = Error("CalledProcessError", run.exit, run.args)
    /\ run.pc = "returned" =>
          /\ run.check => run.exit = 0
          /\ run.result.returncode = run.exit
          /\ run.result.args = run.args
    /\ run.pc = "raised" /\ ~run.check => run.error.kind # "CalledProcessError"

\* A checked call in the body of a session whose subprocess printed its
\* lines and was killed by a signal.
C17_Witness ==
    /\ NonzeroExitError
    /\ run.exit = -9
    /\ run.args = <<"opkg", "install">>
    /\ Len(run.output_lines) = MaxLines
    /\ stack # <<>> /\ sess[cur].exc = "CalledProcessError"


\* The lines of the last call that sys.stdout took: on the terminal when no
\* session had the stream, among the calls of the session's tee otherwise.
Lines(q) == SelectSeq(q, LAMBDA it : it.k = "line" /\ it.s = nruns)
StdoutLines ==
    IF sys_stdout.k = "tee" THEN Lines(ItemsOf(tee_in[sys_stdout.s]))
    ELSE Lines(ConsoleItems)
\* One turn of the loop of run_with_logging that went through.
EchoStep == run.pc = "echo" /\ run'.pc = "read"
\* The flush of the turn reached the log file of the session that has the
\* stream, if that file was in order: the file on disk has the line, after
\* whatever an earlier flush that failed had left in the buffer.
Flushed ==
    sys_stdout.k = "tee" /\ LogState(sys_stdout.s, World) = "ok" =>
        /\ fobj'[sys_stdout.s].buf = <<>>
        /\ files'[sess[sys_stdout.s].log_path].content
              = files[sess[sys_stdout.s].log_path].content
                   \o Append(fobj[sys_stdout.s].buf, run.read[run.line])

\* C18: run_with_logging writes every line of the subprocess to standard
\* output, and flushes it, as soon as it has read it: before it reads the
\* next line and before it waits for the exit.  The captured text of the
\* result it returns is the concatenation, in order, of exactly the lines
\* it wrote to standard output.
C18_LineByLine ==
    /\ [](/\ run.pc \in {"read", "wait"} =>
                /\ StdoutLines = run.read
                /\ run.output_lines = run.read
          /\ run.pc = "echo" =>
                StdoutLines = SubSeq(run.read, 1, Len(run.read) - 1))
    /\ [][/\ EchoStep => Flushed
          /\ run.pc = "wait" /\ run'.pc = "returned" =>
                /\ run'.result.stdout = StdoutLines'
                /\ run'.result.stdout = run.read]_vars

\* A call in the body of a session returned the two lines of its
\* subprocess, which the terminal and the log file both have.
C18_Witness ==
    /\ run.pc = "returned"
    /\ Len(run.result.stdout) = MaxLines
    /\ At("yield")
    /\ sys_stdout = Tee(cur, "out")
    /\ Lines(ConsoleItems) = run.result.stdout
    /\ Lines(files[sess[cur].log_path].content) = run.result.stdout


(***************************************************************************)
(* The Config Module contract                                              *)
(***************************************************************************)
\* What the last call printed or logged on channel ch.
Said(ch) == SelectSeq(call.m.out, LAMBDA l : l.ch = ch)
\* The lines of the last call that announce an action held back.
Announced == SelectSeq(Said("print"), LAMBDA l : l.text[1] = "Dry run: would have run ")
\* What the call would have done to the host it found, had dry-run been unset.
WouldDo ==
    LET real == configure(call.module, Machine(call.before), FALSE).host.did
    IN  SubSeq(real, Len(call.before.did) + 1, Len(real))
\* What the last call did to the host.
Done == SubSeq(call.m.host.did, Len(call.before.did) + 1, Len(call.m.host.did))

\* C19 as the specification words it: a configure call of any Config Module
\* with the dry-run flag set leaves the host as it found it (no package
\* installed or removed, no state-changing command run, no file written) and
\* prints the actions it would have taken.
C19_DryRunChangesNothing ==
    call.op = "configure" /\ call.dry =>
        /\ call.m.host = call.before
        /\ WouldDo # <<>> => Announced # <<>>

\* A dry run of the ClamAV module, with a package helper that holds back in
\* a dry run, on a host without ClamAV: the configuration files are written.
C19_Witness ==
    /\ call.op = "configure" /\ call.dry /\ call.module = "clamav"
    /\ call.before.helper_dry
    /\ call.before.etc["clamd.conf"] = "missing"
    /\ call.m.host.etc["clamd.conf"] = "full"
    /\ <<"write", "/etc/clamav/clamd.conf">> \in Range(Done)
    /\ call.m.host.pkgs = call.before.pkgs


\* The internal checks of a module's verify on host h, in the order verify
\* makes them, each with whether the host fails it.  A dry run of the
\* console and firewall modules leaves out the checks that need a command.
Check(name, failed) == [name |-> name, failed |-> failed]
FirewallFails(h, c) == Observed(h, c) # c[3]
InternalChecks(module, h, dry) ==
    CASE module = "auditd" ->
            << Check(<<"is-active", "auditd">>, "auditd" \notin h.active) >>
      [] module = "niauth" ->
            << Check(<<"is_installed", "ni-auth">>, "ni-auth" \in h.pkgs),
               Check(<<"is_installed", "niacctbase-sudo">>, "niacctbase-sudo" \in h.pkgs),
               Check(<<"is_installed", "nilrt-snac-conflicts">>,
                     "nilrt-snac-conflicts" \notin h.pkgs) >>
      [] module = "console" ->
            (IF dry THEN <<>>
             ELSE << Check(<<"nirtcfg", "consoleout.enabled">>, h.consoleout # "False") >>)
            \o << Check(<<"is_installed", "sysconfig-settings-console">>,
                        "sysconfig-settings-console" \in h.pkgs) >>
      [] module = "clamav" ->
            IF h.pkgs \cap Range(package_names) = {} THEN <<>>
            ELSE << Check(<<"exists", "clamd.conf">>, h.etc["clamd.conf"] # "full"),
                    Check(<<"exists", "freshclam.conf">>, h.etc["freshclam.conf"] # "full") >>
      [] module = "syslog" ->
            << Check(<<"grep", "/var/log/messages">>, h.messages = 0 /\ ~h.delivering) >>
      [] OTHER ->
            << Check(<<"pidof", "firewalld">>, "firewalld" \notin h.active),
               Check(<<"firewall-cmd", "--check-config">>,
                     ~dry /\ "firewall-cmd" \in h.absent) >>
            \o (IF dry THEN <<>>
                ELSE [i \in 1..Len(FirewallChecks) |->
                        Check(<<"firewall-cmd", FirewallChecks[i][1], FirewallChecks[i][2]>>,
                              FirewallFails(h, FirewallChecks[i]))])
FailedChecks(module, h, dry) ==
    SelectSeq(InternalChecks(module, h, dry), LAMBDA c : c.failed)
\* The commands the checks of verify need do what they are asked.
Sound(h) == h.broken = {}

\* C20 as the specification words it: a module's verify returns false
\* whenever one of its internal checks fails, even when other checks of the
\* call passed; it runs every remaining check all the same and logs exactly
\* one error line for each check that failed.
C20_EveryFailureReported ==
    call.op = "verify" /\ Sound(call.before) =>
        LET all    == InternalChecks(call.module, call.before, call.dry)
            failed == FailedChecks(call.module, call.before, call.dry)
        IN  /\ failed # <<>> => call.m.ret = "False"
            /\ \A i \in 1..Len(all) : all[i].name \in Range(call.m.trace)
            /\ Len(Said("error")) = Len(failed)

\* The firewall module verifies a host whose firewalld is down while its
\* policies are as configured: the failure is logged and the call raises.
C20_Witness ==
    /\ call.op = "verify" /\ call.module = "firewall" /\ ~call.dry
    /\ Sound(call.before)
    /\ "firewalld" \notin call.before.active
    /\ call.before.policies = "snac"
    /\ Line("error", <<"MISSING: running firewalld">>) \in Range(call.m.out)
    /\ call.m.ret # "False"
    /\ call.m.exc = "TypeError"


\* C21 as the specification words it: no failure inside a module's verify
\* reaches the caller; a command or check that fails becomes a false result
\* and error entries in the log, so that verify always returns a boolean.
C21_VerifyNeverRaises ==
    call.op = "verify" =>
        /\ call.m.exc = "none"
        /\ call.m.ret \in {"True", "False"}

\* The syslog module verifies a host whose system log takes no entry, with
\* every command in working order: grep finds nothing and the call raises,
\* having logged no error.
C21_Witness ==
    /\ call.op = "verify" /\ call.module = "syslog"
    /\ Sound(call.before) /\ call.before.absent = {}
    /\ ~call.before.delivering /\ call.before.messages = 0
    /\ call.m.exc = "CalledProcessError"
    /\ call.m.ret = "None"
    /\ Said("error") = <<>>


\* C22 as the specification words it: no module's verify changes the host;
\* apart from what it prints and logs, the files, the system log, the
\* packages and the services are after verify as they were before it.
C22_VerifyChangesNothing ==
    call.op = "verify" => call.m.host = call.before

\* The syslog module verifies, in a dry run, a host whose system log takes
\* entries: the call ran logger and the log has one entry more.
C22_Witness ==
    /\ call.op = "verify" /\ call.module = "syslog" /\ call.dry
    /\ call.before.delivering
    /\ call.m.host.messages = call.before.messages + 1
    /\ Done = << <<"logger", "Test log entry for verification">> >>
    /\ call.m.ret = "True"


\* The packages a module's configure is there to install, and what its
\* settings come to on the host once they are applied.
TargetPackages(module) ==
    CASE module = "auditd" -> {"auditd"}
      [] module = "syslog" -> {"syslog-ng"}
      [] module = "firewall" -> {"firewalld", "firewalld-offline-cmd",
                                 "firewalld-log-rotate", "ni-firewalld-servicedefs"}
      [] module = "clamav" -> Range(package_names)
      [] module = "niauth" -> {"nilrt-snac-conflicts"}
      [] OTHER -> {}
Applied(module, h) ==
    CASE module = "auditd" -> "auditd" \in h.active
      [] module = "syslog" -> h.persistent
      [] module = "firewall" -> h.policies = "snac"
      [] module = "clamav" -> h.etc["clamd.conf"] = "full" /\ h.etc["freshclam.conf"] = "full"
      [] module = "niauth" -> ~h.rootpw
      [] OTHER -> h.consoleout = "False"
\* Every command the tool runs is there and does what it is asked.
Working(h) == h.broken = {} /\ h.absent = {}

\* C23 as the specification words it: a configure call with dry-run unset,
\* on a host where a package the module installs is there already, does not
\* invoke install for that package, goes on to apply the settings and
\* returns without raising; and a second configure right after one that
\* went through does not fail because the target state holds already.
C23_InstalledNotReinstalled ==
    call.op = "configure" /\ ~call.dry /\ Working(call.before) =>
        /\ \A p \in TargetPackages(call.module) \cap call.before.pkgs :
              <<"opkg install", p>> \notin Range(Done)
        /\ call.m.exc = "none"
        /\ Applied(call.module, call.m.host)
        /\ configure(call.module, Machine(call.m.host), FALSE).exc = "none"

\* The firewall module configures a host that has firewalld already: the
\* package helper is asked to install it again.
C23_Witness ==
    /\ call.op = "configure" /\ ~call.dry /\ call.module = "firewall"
    /\ Working(call.before)
    /\ "firewalld" \in call.before.pkgs
    /\ <<"opkg install", "firewalld">> \in Range(Done)
    /\ call.m.exc = "none"
    /\ Applied("firewall", call.m.host)


(***************************************************************************)
(* The order of the finally block                                          *)
(***************************************************************************)
\* No tee of session s is in use: neither sys.stdout nor sys.stderr nor the
\* stream of a handler that was there when s began.
TeesGone(s) ==
    /\ ~(sys_stdout.k = "tee" /\ sys_stdout.s = s)
    /\ ~(sys_stderr.k = "tee" /\ sys_stderr.s = s)
    /\ \A h \in DOMAIN sess[s].pre_handlers :
           ~(HandlerStream(h).k = "tee" /\ HandlerStream(h).s = s)

\* How often x occurs in q.
Count(x, q) == Cardinality({i \in 1..Len(q) : q[i] = x})

\* The footer of session s went into its log file.
FooterWritten(s) == "footer" \in Range(sess[s].trace)

\* C24: the finally block restores the stream of every handler, then
\* sys.stdout and sys.stderr, then writes the footer, then closes the file:
\* when the footer, the close or the location message is due no tee of the
\* session is in use, and the file is open until the footer is through.  So
\* the footer and the location message of a session pass through no tee, the
\* footer is in the log file once when its write went through and never more
\* than once, and the location message is in no log file.
C24_TeardownOrder ==
    \A s \in Sessions :
        /\ sess[s].pc \in {"footer", "close", "print"} => TeesGone(s)
        /\ sess[s].pc = "footer" /\ sess[s].log_file => fobj[s].state = "open"
        /\ \A t \in Sessions :
              /\ Footer(s) \notin Range(ItemsOf(tee_in[t]))
              /\ Saved(s) \notin Range(ItemsOf(tee_in[t]))
              /\ sess[t].log_file => Saved(s) \notin Range(LogData(t))
        /\ sess[s].log_file => Count(Footer(s), LogData(s)) <= 1
        /\ sess[s].log_file /\ FooterWritten(s) =>
              Count(Footer(s), files[sess[s].log_path].content) = 1

\* A session begun in the body of another has ended: its location message
\* went through the tee of the outer session and is in the outer session's
\* log file.
C24_Witness ==
    \E s, t \in Sessions :
        /\ s # t
        /\ sess[s].pc = "left" /\ "print" \in Range(sess[s].trace)
        /\ sess[s].original_stdout = Tee(t, "out")
        /\ Saved(s) \in Range(ItemsOf(tee_in[t]))
        /\ Saved(s) \in Range(files[sess[t].log_path].content)
        /\ Count(Footer(s), files[sess[s].log_path].content) = 1
        /\ Footer(s) \notin Range(ItemsOf(tee_in[t]))

\* The same with the location message followed only for the sessions that
\* were not begun inside another: this much holds.
C24_NotNested ==
    \A s \in Sessions :
        /\ sess[s].pc \in {"footer", "close", "print"} => TeesGone(s)
        /\ sess[s].pc = "footer" /\ sess[s].log_file => fobj[s].state = "open"
        /\ \A t \in Sessions :
              /\ Footer(s) \notin Range(ItemsOf(tee_in[t]))
              /\ sess[s].pre_stdout.k # "tee" =>
                    /\ Saved(s) \notin Range(ItemsOf(tee_in[t]))
                    /\ sess[t].log_file => Saved(s) \notin Range(LogData(t))
              /\ Saved(s) \notin Range(ItemsOf(tee_in[s]))
              /\ sess[s].log_file => Saved(s) \notin Range(LogData(s))
        /\ sess[s].log_file => Count(Footer(s), LogData(s)) <= 1
        /\ sess[s].log_file /\ FooterWritten(s) =>
              Count(Footer(s), files[sess[s].log_path].content) = 1


(***************************************************************************)
(* Firewall verify                                                         *)
(***************************************************************************)
\* The policy and service checks that follow the two checks of the daemon
\* and the command, as the last call made them.
LaterChecksRan ==
    \A i \in 1..Len(FirewallChecks) :
        IF call.dry
        THEN Line("print", <<"Dry run: would have run ", "firewall-cmd ",
                             FirewallChecks[i][1], FirewallChecks[i][2]>>)
                 \in Range(call.m.out)
        ELSE <<"firewall-cmd", FirewallChecks[i][1], FirewallChecks[i][2]>>
                 \in Range(call.m.trace)

\* C25 as the specification words it: firewall verify returns false whenever
\* the firewalld process is not running or firewall-cmd is missing, whatever
\* the later policy and service checks find, and it still runs those checks.
C25_FirewallDaemonDown ==
    /\ call.module = "firewall" /\ call.op = "verify"
    /\ Sound(call.before)
    /\ \/ "firewalld" \notin call.before.active
       \/ "firewall-cmd" \in call.before.absent
    => /\ call.m.exc = "none"
       /\ call.m.ret = "False"
       /\ LaterChecksRan

\* Firewall verify on a host whose policies are as configure makes them
\* while firewalld is not running: the missing daemon is logged, the seven
\* policy and service checks run and pass, and the call raises TypeError
\* where it was to return.
C25_Witness ==
    /\ call.module = "firewall" /\ call.op = "verify" /\ ~call.dry
    /\ Sound(call.before) /\ call.before.absent = {}
    /\ "firewalld" \notin call.before.active
    /\ call.before.policies = "snac"
    /\ LaterChecksRan
    /\ Said("error") = << Line("error", <<"MISSING: running firewalld">>) >>
    /\ call.m.exc = "TypeError"
    /\ call.m.ret = "None"


(***************************************************************************)
(* ClamAV verify                                                           *)
(***************************************************************************)
SignatureStates == {"nodir", "none", "empty", "valid"}
\* A ClamAV package is installed on host h.
ClamAVInstalled(h) == h.pkgs \cap Range(package_names) # {}
\* A configuration file of ClamAV is missing or empty on host h.
ClamAVConfigBad(h) == \E f \in {"clamd.conf", "freshclam.conf"} : h.etc[f] # "full"

\* C26: ClamAV verify never raises.  With no ClamAV package installed it
\* returns true.  With one installed it returns false exactly when the clamd
\* or the freshclam configuration file is missing or empty; whatever the
\* state of the signatures (no database directory, no signature files, only
\* empty ones, valid ones) the result is the same, and signatures that are
\* not there are logged as warnings, never as errors.
C26_SignaturesOnlyWarn ==
    call.module = "clamav" /\ call.op = "verify" =>
        /\ call.m.exc = "none"
        /\ ~ClamAVInstalled(call.before) => call.m.ret = "True"
        /\ ClamAVInstalled(call.before) =>
              /\ call.m.ret = (IF ClamAVConfigBad(call.before) THEN "False" ELSE "True")
              /\ call.before.sigs # "valid" => Said("warning") # <<>>
              /\ Len(Said("error")) =
                    Cardinality({f \in {"clamd.conf", "freshclam.conf"} :
                                    call.before.etc[f] # "full"})
        /\ \A sg \in SignatureStates :
              verify("clamav", Machine([call.before EXCEPT !.sigs = sg]), call.dry).ret
                  = call.m.ret

\* ClamAV is installed, both configuration files are in place and the
\* signature files are all empty: verify warns and returns true.
C26_Witness ==
    /\ call.module = "clamav" /\ call.op = "verify"
    /\ ClamAVInstalled(call.before)
    /\ ~ClamAVConfigBad(call.before)
    /\ call.before.sigs = "empty"
    /\ Line("warning", <<"All ClamAV signature files are empty or invalid">>)
          \in Range(call.m.out)
    /\ Said("error") = <<>>
    /\ call.m.ret = "True"

\* ClamAV is installed with valid signatures and an empty clamd.conf: verify
\* returns false.
C26_WitnessBad ==
    /\ call.module = "clamav" /\ call.op = "verify"
    /\ ClamAVInstalled(call.before)
    /\ call.before.etc["clamd.conf"] = "empty"
    /\ call.before.sigs = "valid"
    /\ call.m.ret = "False"


(***************************************************************************)
(* The exception of the body                                               *)
(***************************************************************************)
\* The body of session s raises in this step: the session goes from its
\* yield to the start of its finally block with an exception.
BodyRaises(s) ==
    /\ s \in DOMAIN sess /\ sess[s].pc = "yield"
    /\ sess'[s].pc = "restore" /\ sess'[s].exc # "none"

\* The exception that the step hands to the body of session s.
Raised(s) ==
    LET op == sess'[s].trace[Len(sess'[s].trace)]
    IN  CASE Len(sess'[s].trace) > Len(sess[s].trace) /\ op = "body!" -> "SNACError"
          [] Len(sess'[s].trace) > Len(sess[s].trace) /\ op \in {"write!", "flush!"} ->
                "BrokenPipeError"
          [] Len(sess'[s].trace) > Len(sess[s].trace) /\ op = "run!" -> run'.error.kind
          [] OTHER -> sess[cur].exc

\* The finally block of session s ran: handlers and streams were restored
\* and, when there is a log file, the footer was tried.
CleanupRan(s) ==
    /\ {"restore_handlers", "restore_std"} \subseteq Range(sess[s].trace)
    /\ TeesGone(s)
    /\ sess[s].log_file => \E f \in {"footer", "footer!"} : f \in Range(sess[s].trace)

\* C27: the exception the body of a session raises is the one the session
\* holds when its finally block begins; nothing in the finally block changes
\* it; and when the session is left, after the cleanup, it is this exception
\* that the caller gets: the body of the enclosing session, or the driver,
\* which then reports an error (the error of the tool's own kind for the
\* tool's own exception) and never success.
C27_BodyErrorReachesCaller ==
    [][\A s \in Sessions :
         /\ BodyRaises(s) => sess'[s].exc = Raised(s)
         /\ sess[s].started /\ sess[s].pc \in TeardownPcs \cup {"done", "left"} =>
               sess'[s].exc = sess[s].exc
         /\ sess[s].started /\ sess[s].pc = "done" /\ sess'[s].pc = "left"
            /\ sess[s].exc # "none" =>
               /\ CleanupRan(s)
               /\ IF Len(stack) > 1
                  THEN /\ sess'[stack[Len(stack) - 1]].exc = sess[s].exc
                       /\ sess'[stack[Len(stack) - 1]].pc = "restore"
                  ELSE /\ exit_kind' # "ok"
                       /\ sess[s].exc = "SNACError" => exit_kind' = "snac"]_vars

\* The body of a session raised and the footer could not be written: the
\* session is left with the exception of the body, and the driver reports
\* the tool's own error.
C27_Witness ==
    \E s \in Sessions :
        /\ sess[s].started /\ sess[s].pc = "left"
        /\ "body!" \in Range(sess[s].trace)
        /\ "footer!" \in Range(sess[s].trace)
        /\ sess[s].exc = "SNACError"
        /\ stack = <<>>
        /\ exit_kind = "snac"


(***************************************************************************)
(* Entry that fails                                                        *)
(***************************************************************************)
\* The steps of session entry that can fail, as the trace names a failure.
EntryFailures == {"mkdir!", "chmod_dir!", "chown_dir!", "open!", "fchown!",
                  "header!", "redirect!"}

\* Entry of session s failed and the failure is about to reach the caller.
EntryFailed(s) ==
    /\ JustEnded(s) /\ ~sess[s].started /\ sess[s].exc # "none"
    /\ Range(sess[s].trace) \cap EntryFailures # {}

\* C28: when the entry of a session fails, at whatever step, then at the
\* moment the failure reaches the caller sys.stdout, sys.stderr and the
\* stream of every handler are the objects they were before the entry began,
\* and no tee of the session is in use anywhere.
C28_FailedEntryRestores ==
    \A s \in Sessions :
        /\ JustEnded(s) /\ ~sess[s].started =>
              /\ sess[s].exc # "none"
              /\ Range(sess[s].trace) \cap EntryFailures # {}
        /\ EntryFailed(s) =>
              /\ sys_stdout = sess[s].pre_stdout
              /\ sys_stderr = sess[s].pre_stderr
              /\ \A h \in DOMAIN sess[s].pre_handlers :
                     HandlerStream(h) = sess[s].pre_handlers[h]
              /\ TeesGone(s)
              /\ \A h \in 1..Len(handlers) :
                     ~(HandlerStream(h).k = "tee" /\ HandlerStream(h).s = s)

\* The entry of a session failed while it redirected the handlers, after the
\* tees were installed and a first handler was redirected: everything is
\* back as it was.
C28_Witness ==
    \E s \in Sessions :
        /\ EntryFailed(s)
        /\ "redirect!" \in Range(sess[s].trace)
        /\ "tee" \in Range(sess[s].trace)
        /\ "redirect" \in Range(sess[s].trace)
        /\ sess[s].exc = "AttributeError"
        /\ sys_stdout = sess[s].pre_stdout
        /\ sys_stderr = sess[s].pre_stderr


(***************************************************************************)
(* Header before footer                                                    *)
(***************************************************************************)
\* C29 as the specification words it: in every log file a footer is present
\* only if the complete header of the same session was written before it;
\* no failure during session entry leaves a log file with a footer and no
\* header.
C29_FooterOnlyAfterHeader ==
    \A p \in DOMAIN files :
        \A i \in 1..Len(files[p].content) :
            files[p].content[i].k = "ftr" =>
                \E j \in 1..(i - 1) :
                    files[p].content[j] = Header(files[p].content[i].s)

\* The entry of a session failed at os.fchown, after the log file was
\* opened and before the header was written: the finally block wrote the
\* footer, and the footer is all the log file holds.
C29_Witness ==
    \E s \in Sessions :
        /\ sess[s].pc = "left" /\ ~sess[s].started
        /\ "fchown!" \in Range(sess[s].trace)
        /\ ~HeaderTried(s)
        /\ "footer" \in Range(sess[s].trace)
        /\ files[sess[s].log_path].content = <<Footer(s)>>


(***************************************************************************)
(* Output of a command that failed                                         *)
(***************************************************************************)
\* run_with_logging raises the nonzero-exit error in this step.
RaisesNonzeroExit ==
    run.pc # "raised" /\ run'.pc = "raised" /\ run'.error.kind = "CalledProcessError"

\* The session whose tee has sys.stdout took every write of the last call
\* in its log file: none of them found the file failing.
LogInOrder ==
    /\ sys_stdout.k = "tee"
    /\ \A i \in 1..Len(tee_in[sys_stdout.s]) :
          tee_in[sys_stdout.s][i].it \in Range(run.read) =>
              tee_in[sys_stdout.s][i].log = "ok"

\* C30: when run_with_logging raises the nonzero-exit error the subprocess
\* has ended its output and wait() has returned its exit code, and every
\* line the subprocess produced has been written to standard output, in
\* order, before the error is raised: to the terminal, and, when a session
\* has the stream and its log file took the writes, to the log file on disk.
\* Nothing is written by the step that raises.
C30_OutputBeforeError ==
    [][RaisesNonzeroExit =>
          /\ run.pc = "wait"
          /\ run'.returncode = run.exit /\ run.exit # 0
          /\ StdoutLines = run.read
          /\ run.output_lines = run.read
          /\ Lines(ConsoleItems) = run.read
          /\ LogInOrder =>
                Lines(files[sess[sys_stdout.s].log_path].content) = run.read
          /\ console' = console /\ files' = files /\ tee_in' = tee_in]_vars

\* A checked call in the body of a session failed with exit code 1 after
\* its subprocess printed two lines: the terminal and the log file of the
\* session have both lines, and the session is on its way out with the error.
C30_Witness ==
    /\ NonzeroExitError
    /\ run.exit = 1
    /\ Len(run.read) = MaxLines
    /\ stack # <<>> /\ sess[cur].pc = "restore"
    /\ sess[cur].exc = "CalledProcessError"
    /\ sys_stdout = Tee(cur, "out")
    /\ Lines(ConsoleItems) = run.read
    /\ Lines(files[sess[cur].log_path].content) = run.read

====
